---- MODULE Spec2Model ----
(***************************************************************************)
(* dash-cli: the scan & cache coordination of the App component and the    *)
(* hierarchical navigation over the project tree it displays.              *)
(*                                                                         *)
(* JavaScript values are modelled as follows.                              *)
(*   - T | null and T | undefined: a sequence of length 0 or 1             *)
(*     (None, Some(x)).                                                    *)
(*   - a string that the code only compares or concatenates: a TLA+        *)
(*     string; Chars gives its characters where the code parses it.        *)
(*   - an object: a record; Project.nestedProjects is None for undefined.  *)
(*                                                                         *)
(* Specifications.                                                         *)
(*   Spec       a session from construction: mount, cache load, scans,     *)
(*              settings, tabs, drill-down and back.                       *)
(*   NavSpec    every key of the project list on a loaded tree.            *)
(*   CacheSpec  saveCache and loadCacheAsync called in any order; here     *)
(*              `load` is the call in flight and `projects` what the last  *)
(*              load returned.                                             *)
(*   ListSpec   the list of the Projects tab over shortcuts, recent        *)
(*              entries, section switches, levels and search terms.         *)
(***************************************************************************)
EXTENDS Integers, Sequences, FiniteSets, TLC

VARIABLES
    phase,          \* "constructed" | "mounted" | "unmounted" (ink render / unmount)
    currentTab,     \* useState(TAB_PROJECTS)
    projects,       \* useState<Project[] | null>(null)
    isRefreshing,   \* useState(false)
    settings,       \* useState(initialSettings)
    signals,        \* the ScanAbortSignal objects created so far: their aborted flags;
                    \* scanAbortSignal.current is the last one
    hasShownResults,\* the mount effect's local "let hasShownResults"
    load,           \* the loadCacheAsync call of the mount effect
    scans,          \* the scanProjectsAsync calls in flight
    nScans,         \* number of scans started so far
    cacheFile,      \* ~/.dash-cli/cache.json
    lastSave,       \* arguments of the latest saveCache call (history variable)
    fs,             \* the repositories on disk below the existing root
    nestedCache,    \* useState<Map<string, Project[]>>
    navStack,       \* useState<NavLevel[]>
    selectedKey,    \* useState<string | null>(null)
    scrollOffset,   \* useState(0)
    searchTerm,     \* useState("")
    recentEntries,  \* useState(initialRecentEntries)
    shortcutEntries,\* useState(initialShortcutEntries)
    exitResult,     \* what the session handed over when it ended: the selected
                    \* path (onSelect) or a shortcut's command (writeLastCommand)
    confirmDeleteId,\* useState<string | null>(null)
    shortcutsFile   \* the shortcuts of ~/.dash-cli/shortcuts.json, in file order

vars == <<phase, currentTab, projects, isRefreshing, settings, signals,
          hasShownResults, load, scans, nScans, cacheFile, lastSave, fs,
          nestedCache, navStack, selectedKey, scrollOffset, searchTerm,
          recentEntries, shortcutEntries, exitResult, confirmDeleteId,
          shortcutsFile>>

---------------------------------------------------------------------------
(* Bounds of the model *)

\* scans started in one session (the mount scan included)
MaxScans == 2

---------------------------------------------------------------------------
(* Optional values *)

None == <<>>
Some(x) == <<x>>

\* string | null for keys and paths: null is a string no key or path equals
NullStr == "<null>"

---------------------------------------------------------------------------
(* Strings the code parses or orders, as characters *)

Chars(s) ==
    CASE s = "" -> <<>>
      [] s = "alpha" -> <<"a", "l", "p", "h", "a">>
      [] s = "beta" -> <<"b", "e", "t", "a">>
      [] s = "delta" -> <<"d", "e", "l", "t", "a">>
      [] s = "gamma" -> <<"g", "a", "m", "m", "a">>
      [] s = "gamma, ,delta" ->
            <<"g", "a", "m", "m", "a", ",", " ", ",", "d", "e", "l", "t", "a">>
      [] s = "gamma/delta" ->
            <<"g", "a", "m", "m", "a", "/", "d", "e", "l", "t", "a">>
      [] s = "Alpha" -> <<"A", "l", "p", "h", "a">>
      [] s = "Beta" -> <<"B", "e", "t", "a">>
      [] s = "Gamma" -> <<"G", "a", "m", "m", "a">>
      [] s = "g*" -> <<"g", "*">>
      [] s = "go" -> <<"g", "o">>
      [] s = "Go" -> <<"G", "o">>
      [] s = "web" -> <<"w", "e", "b">>
      [] s = "g o" -> <<"g", " ", "o">>
      [] s = "--go" -> <<"-", "-", "g", "o">>
      [] s = ".cfg" -> <<".", "c", "f", "g">>
      [] s \in {"a", "b", "c", "d", "1", "2", "3", "4", "5"} -> <<s>>

Letters == <<"a", "b", "c", "d", "e", "f", "g", "h", "i", "j", "k", "l", "m",
             "n", "o", "p", "q", "r", "s", "t", "u", "v", "w", "x", "y", "z">>

Capitals == <<"A", "B", "C", "D", "E", "F", "G", "H", "I", "J", "K", "L", "M",
              "N", "O", "P", "Q", "R", "S", "T", "U", "V", "W", "X", "Y", "Z">>

\* the place of a letter in the alphabet, in either case
CharRank(c) == CHOOSE i \in 1..Len(Letters) : Letters[i] = c \/ Capitals[i] = c

IsCapital(c) == \E i \in 1..Len(Capitals) : Capitals[i] = c

RECURSIVE CompareChars(_, _)
\* the first level of a.localeCompare(b) on words of ASCII letters: the
\* letters one by one without regard to case, a prefix before the longer
\* word; -1, 0 or 1
CompareChars(a, b) ==
    IF a = <<>> /\ b = <<>> THEN 0
    ELSE IF a = <<>> THEN -1
    ELSE IF b = <<>> THEN 1
    ELSE IF CharRank(Head(a)) < CharRank(Head(b)) THEN -1
    ELSE IF CharRank(Head(a)) > CharRank(Head(b)) THEN 1
    ELSE CompareChars(Tail(a), Tail(b))

RECURSIVE CompareCase(_, _)
\* the last level of localeCompare, for words with the same letters: the
\* first letter that differs in case decides, lower case first
CompareCase(a, b) ==
    IF a = <<>> \/ b = <<>> THEN 0
    ELSE IF Head(a) = Head(b) THEN CompareCase(Tail(a), Tail(b))
    ELSE IF IsCapital(Head(b)) THEN -1
    ELSE 1

\* a.localeCompare(b) in the default collation
localeCompare(a, b) ==
    IF CompareChars(Chars(a), Chars(b)) # 0 THEN CompareChars(Chars(a), Chars(b))
    ELSE CompareCase(Chars(a), Chars(b))

---------------------------------------------------------------------------
(* Settings *)

\* rows of the list the terminal shows (settings.visibleRows)
VisibleRows == 2

MkSettings(dir, depth, skip, color) ==
    [projectsDir |-> dir, maxDepth |-> depth, skipDirs |-> skip,
     visibleRows |-> VisibleRows, selectedColor |-> color,
     showShortcuts |-> TRUE, showRecent |-> TRUE]

\* the root that exists on disk, and one that does not
ExistingRoot == "/w"
MissingRoot == "/x"

\* settings.json is merged over the defaults unvalidated: visibleRows is the
\* number the file holds (the settings screen clamps only what is edited there)
S0 == MkSettings(ExistingRoot, 2, "", "#FFD700")
SDir == MkSettings(MissingRoot, 2, "", "#FFD700")
SDepth == MkSettings(ExistingRoot, 1, "", "#FFD700")
SSkip == MkSettings(ExistingRoot, 2, "gamma", "#FFD700")
SColor == MkSettings(ExistingRoot, 2, "", "#FFFFFF")

\* what the settings screen can hand to onSave
SettingsChoices == {S0, SDir, SDepth, SSkip, SColor}

\* the initialSettings prop
InitialSettingsChoices == {S0}

---------------------------------------------------------------------------
(* The file system below the projects directory: the set of directories    *)
(* that hold a .git directory, each as its segments below the root.        *)

FsEmpty == {}
FsSmall == {<<"alpha", "gamma">>, <<"beta">>}
FsLarge == FsSmall \cup {<<"alpha", "delta">>}

\* the states of the disk during a session
FsStates == {FsEmpty, FsLarge}

existsSync(dir) == dir = ExistingRoot

---------------------------------------------------------------------------
(* scanner: parseSkipPatterns *)

RECURSIVE SplitOn(_, _, _)
\* s.split(sep): cs are the characters still to read, cur the piece being read
SplitOn(cs, sep, cur) ==
    IF cs = <<>> THEN <<cur>>
    ELSE IF Head(cs) = sep THEN <<cur>> \o SplitOn(Tail(cs), sep, <<>>)
    ELSE SplitOn(Tail(cs), sep, Append(cur, Head(cs)))

RECURSIVE TrimStart(_)
TrimStart(cs) ==
    IF cs # <<>> /\ Head(cs) = " " THEN TrimStart(Tail(cs)) ELSE cs

RECURSIVE TrimEnd(_)
TrimEnd(cs) ==
    IF cs # <<>> /\ cs[Len(cs)] = " "
    THEN TrimEnd(SubSeq(cs, 1, Len(cs) - 1))
    ELSE cs

Trim(cs) == TrimEnd(TrimStart(cs))

\* the names p of the ignore patterns **/p/** , in order
parseSkipPatterns(skipDirs) ==
    LET pieces == SplitOn(Chars(skipDirs), ",", <<>>)
        trimmed == [i \in 1..Len(pieces) |-> Trim(pieces[i])]
    IN  SelectSeq(trimmed, LAMBDA p : Len(p) > 0)

RECURSIVE GlobMatch(_, _)
\* one path segment against one segment of a glob pattern: * stands for any
\* characters of the segment, every other character for itself
GlobMatch(name, pattern) ==
    IF pattern = <<>> THEN name = <<>>
    ELSE IF Head(pattern) = "*"
    THEN \/ GlobMatch(name, Tail(pattern))
         \/ name # <<>> /\ GlobMatch(Tail(name), pattern)
    ELSE /\ name # <<>>
         /\ Head(name) = Head(pattern)
         /\ GlobMatch(Tail(name), Tail(pattern))

\* fast-glob's ignore: **/p/** matches the entry <segs>/.git when one of the
\* directories above .git matches p
Ignored(segs, patterns) ==
    \E i \in 1..Len(segs), k \in 1..Len(patterns) :
        GlobMatch(Chars(segs[i]), patterns[k])

\* the call passes no `dot` option (default false): the ** of the pattern
\* does not match a directory whose name begins with a period
Hidden(segs) ==
    \E i \in 1..Len(segs) : segs[i] # "" /\ Head(Chars(segs[i])) = "."

\* fg("**/.git", {cwd, onlyDirectories, deep: maxDepth + 1, ignore}) followed by
\* dirname: the repository directories found, as segments below cwd.  The entry
\* <segs>/.git lies Len(segs) + 1 levels below cwd.
GlobGitDirs(maxDepth, patterns, disk) ==
    {segs \in disk : /\ Len(segs) + 1 <= maxDepth + 1
                     /\ ~Ignored(segs, patterns)
                     /\ ~Hidden(segs)}

---------------------------------------------------------------------------
(* scanner: buildProjectTree *)

\* path.join(dir, segment)
join(dir, segment) == IF segment = "" THEN dir ELSE dir \o "/" \o segment

\* relative(projectsDir, fullPath).split(/[/\\]/) of a found repository
Segments(segs) == IF segs = <<>> THEN <<"">> ELSE segs

EmptyNodeMap == [keys |-> <<>>, node |-> <<>>, dir |-> <<>>]

\* index of a path in the node map, 0 when the map has no such key
KeyIndex(nm, path) ==
    IF \E i \in 1..Len(nm.keys) : nm.keys[i] = path
    THEN CHOOSE i \in 1..Len(nm.keys) : nm.keys[i] = path
    ELSE 0

RECURSIVE AddSegmentsFirstWins(_, _, _, _, _)
\* the inner loop without the branch that marks an existing node as a
\* repository: a node keeps the isGitRepo it was created with
AddSegmentsFirstWins(nm, segs, i, currentDir, parentIdx) ==
    IF i > Len(segs) THEN nm
    ELSE
        LET segment == segs[i]
            currentFullPath == join(currentDir, segment)
            found == KeyIndex(nm, currentFullPath)
            created == [name |-> segment, path |-> currentFullPath,
                        isGitRepo |-> i = Len(segs),
                        hasNestedProjects |-> FALSE,
                        nestedProjects |-> None]
            withNode ==
                IF found = 0
                THEN [keys |-> Append(nm.keys, currentFullPath),
                      node |-> Append(nm.node, created),
                      dir |-> Append(nm.dir,
                                IF segment = "" THEN "<above>" ELSE currentDir)]
                ELSE nm
            linked ==
                IF found = 0 /\ parentIdx # 0
                THEN [withNode EXCEPT
                        !.node[parentIdx].nestedProjects =
                            IF @ = None THEN Some(<<currentFullPath>>)
                            ELSE Some(Append(@[1], currentFullPath)),
                        !.node[parentIdx].hasNestedProjects = TRUE]
                ELSE withNode
            idx == IF found = 0 THEN Len(nm.keys) + 1 ELSE found
        IN  AddSegmentsFirstWins(linked, segs, i + 1, currentFullPath, idx)

RECURSIVE AddSegments(_, _, _, _, _)
\* the inner loop of buildProjectTree: segments i.. of one found repository;
\* a node is [name, path, isGitRepo, hasNestedProjects, nestedProjects], its
\* nestedProjects held as the paths of the children (the objects are shared
\* with the map)
AddSegments(nm, segs, i, currentDir, parentIdx) ==
    IF i > Len(segs) THEN nm
    ELSE
        LET segment == segs[i]
            currentFullPath == join(currentDir, segment)
            isLastSegment == i = Len(segs)
            found == KeyIndex(nm, currentFullPath)
            created == [name |-> segment, path |-> currentFullPath,
                        isGitRepo |-> isLastSegment,
                        hasNestedProjects |-> FALSE,
                        nestedProjects |-> None]
            withNode ==
                IF found = 0
                THEN [keys |-> Append(nm.keys, currentFullPath),
                      node |-> Append(nm.node, created),
                      dir |-> Append(nm.dir,
                                IF segment = "" THEN "<above>" ELSE currentDir)]
                ELSE IF isLastSegment
                THEN [nm EXCEPT !.node[found].isGitRepo = TRUE]
                ELSE nm
            linked ==
                IF found = 0 /\ parentIdx # 0
                THEN [withNode EXCEPT
                        !.node[parentIdx].nestedProjects =
                            IF @ = None THEN Some(<<currentFullPath>>)
                            ELSE Some(Append(@[1], currentFullPath)),
                        !.node[parentIdx].hasNestedProjects = TRUE]
                ELSE withNode
            idx == IF found = 0 THEN Len(nm.keys) + 1 ELSE found
        IN  AddSegments(linked, segs, i + 1, currentFullPath, idx)

RECURSIVE AddPaths(_, _, _)
\* the outer loop of buildProjectTree over projectPaths
AddPaths(nm, projectPaths, projectsDir) ==
    IF projectPaths = <<>> THEN nm
    ELSE AddPaths(AddSegments(nm, Segments(Head(projectPaths)), 1, projectsDir, 0),
                  Tail(projectPaths), projectsDir)

RECURSIVE InsertSorted(_, _)
\* stable insertion of p after every element that does not compare greater
InsertSorted(sorted, p) ==
    IF sorted = <<>> THEN <<p>>
    ELSE IF localeCompare(p.name, Head(sorted).name) < 0 THEN <<p>> \o sorted
    ELSE <<Head(sorted)>> \o InsertSorted(Tail(sorted), p)

RECURSIVE SortByName(_)
\* projects.sort((a, b) => a.name.localeCompare(b.name))
SortByName(list) ==
    IF list = <<>> THEN <<>>
    ELSE InsertSorted(SortByName(SubSeq(list, 1, Len(list) - 1)), list[Len(list)])

RECURSIVE TreeNodeRootSortOnly(_, _)
\* a Project object whose children stay in the order they were linked in
TreeNodeRootSortOnly(nm, idx) ==
    LET n == nm.node[idx]
    IN  IF n.nestedProjects = None THEN n
        ELSE [n EXCEPT !.nestedProjects =
                Some([k \in 1..Len(n.nestedProjects[1]) |->
                        TreeNodeRootSortOnly(nm, KeyIndex(nm, n.nestedProjects[1][k]))])]

RECURSIVE TreeNode(_, _)
\* the Project object of a map entry with its children sorted (sortProjects)
TreeNode(nm, idx) ==
    LET n == nm.node[idx]
    IN  IF n.nestedProjects = None THEN n
        ELSE [n EXCEPT !.nestedProjects =
                Some(SortByName([k \in 1..Len(n.nestedProjects[1]) |->
                        TreeNode(nm, KeyIndex(nm, n.nestedProjects[1][k]))]))]

\* a tree whose root list holds every node of the map
buildProjectTreeEveryNode(projectPaths, projectsDir) ==
    LET nm == AddPaths(EmptyNodeMap, projectPaths, projectsDir)
        rootIdx == SelectSeq([i \in 1..Len(nm.keys) |-> i],
                             LAMBDA i : nm.dir[i] # "<above>")
    IN  SortByName([k \in 1..Len(rootIdx) |-> TreeNode(nm, rootIdx[k])])

buildProjectTree(projectPaths, projectsDir) ==
    LET nm == AddPaths(EmptyNodeMap, projectPaths, projectsDir)
        rootIdx == SelectSeq([i \in 1..Len(nm.keys) |-> i],
                             LAMBDA i : nm.dir[i] = projectsDir)
    IN  SortByName([k \in 1..Len(rootIdx) |-> TreeNode(nm, rootIdx[k])])

\* the orders in which fast-glob may return a set of entries
Orderings(S) ==
    {o \in [1..Cardinality(S) -> S] : \A i, j \in 1..Cardinality(S) : i # j => o[i] # o[j]}

\* globAndBuild without the existsSync test
globAndBuildUnchecked(config, ownAborted, disk) ==
    IF ownAborted THEN {<<>>}
    ELSE LET found == GlobGitDirs(config.maxDepth,
                                  parseSkipPatterns(config.skipDirs), disk)
         IN  {buildProjectTree(o, config.projectsDir) : o \in Orderings(found)}

\* what scanProjectsAsync(config, signal) can resolve with when the glob ends
\* on disk state `disk` with signal.aborted = ownAborted
globAndBuild(config, ownAborted, disk) ==
    IF ~existsSync(config.projectsDir) THEN {<<>>}
    ELSE IF ownAborted THEN {<<>>}
    ELSE LET found == GlobGitDirs(config.maxDepth,
                                  parseSkipPatterns(config.skipDirs), disk)
         IN  {buildProjectTree(o, config.projectsDir) : o \in Orderings(found)}

\* globAndBuild for the settings and disks of the model, computed once
ScanTable ==
    [c \in SettingsChoices |->
        [d \in FsStates \cup {FsSmall} |-> globAndBuild(c, FALSE, d)]]

scanProjectsAsync(config, ownAborted, disk) ==
    IF ownAborted THEN globAndBuild(config, TRUE, disk)
    ELSE ScanTable[config][disk]

---------------------------------------------------------------------------
(* Project objects *)

\* p.nestedProjects, undefined also when the object has no such property
NestedOf(p) == IF "nestedProjects" \in DOMAIN p THEN p.nestedProjects ELSE None

\* truthiness of p.hasNestedProjects
HasNested(p) == "hasNestedProjects" \in DOMAIN p /\ p.hasNestedProjects

RECURSIVE FindProject(_, _)
\* allProjectsMap.get(path): the map is filled by a pre-order walk of the tree
FindProject(list, path) ==
    IF list = <<>> THEN None
    ELSE LET p == Head(list)
             below == IF NestedOf(p) = None THEN None
                      ELSE FindProject(NestedOf(p)[1], path)
             rest == FindProject(Tail(list), path)
         IN  IF rest # None THEN rest
             ELSE IF below # None THEN below
             ELSE IF p.path = path THEN Some(p)
             ELSE None

RECURSIVE traverseKeepsNested(_, _)
\* a traversal that copies each repository as the tree holds it
traverseKeepsNested(p, relativePath) ==
    LET self == IF p.isGitRepo
                THEN <<[name |-> relativePath, path |-> p.path,
                        isGitRepo |-> p.isGitRepo,
                        hasNestedProjects |-> HasNested(p),
                        nestedProjects |-> NestedOf(p)]>>
                ELSE <<>>
        kids == IF NestedOf(p) = None THEN <<>> ELSE NestedOf(p)[1]
        RECURSIVE below(_)
        below(i) == IF i > Len(kids) THEN <<>>
                    ELSE traverseKeepsNested(kids[i],
                                  IF relativePath # ""
                                  THEN relativePath \o "/" \o kids[i].name
                                  ELSE kids[i].name) \o below(i + 1)
    IN  self \o below(1)

RECURSIVE traverse(_, _)
\* collectNestedGitProjects: traverse(p, relativePath)
traverse(p, relativePath) ==
    LET self == IF p.isGitRepo
                THEN <<[name |-> relativePath, path |-> p.path,
                        isGitRepo |-> p.isGitRepo,
                        hasNestedProjects |-> FALSE,
                        nestedProjects |-> None]>>
                ELSE <<>>
        kids == IF NestedOf(p) = None THEN <<>> ELSE NestedOf(p)[1]
        RECURSIVE below(_)
        below(i) == IF i > Len(kids) THEN <<>>
                    ELSE traverse(kids[i],
                                  IF relativePath # ""
                                  THEN relativePath \o "/" \o kids[i].name
                                  ELSE kids[i].name) \o below(i + 1)
    IN  self \o below(1)

\* a flatten that starts the traversal at the node itself
collectNestedWithSelf(project) == traverse(project, project.name)

collectNestedGitProjects(project) ==
    LET kids == IF NestedOf(project) = None THEN <<>> ELSE NestedOf(project)[1]
        RECURSIVE each(_)
        each(i) == IF i > Len(kids) THEN <<>>
                   ELSE traverse(kids[i], kids[i].name) \o each(i + 1)
    IN  each(1)

---------------------------------------------------------------------------
(* cache.ts *)

\* a serialisation that writes the nodes of the first level only
StringifyShallow(p) ==
    [name |-> p.name, path |-> p.path, isGitRepo |-> p.isGitRepo,
     hasNestedProjects |-> HasNested(p)]

RECURSIVE StringifyProject(_)
\* JSON.stringify then JSON.parse of a Project: a property whose value is
\* undefined is not written, so the object read back does not have it
StringifyProject(p) ==
    LET base == [name |-> p.name, path |-> p.path, isGitRepo |-> p.isGitRepo,
                 hasNestedProjects |-> HasNested(p)]
    IN  IF NestedOf(p) = None THEN base
        ELSE [name |-> p.name, path |-> p.path, isGitRepo |-> p.isGitRepo,
              hasNestedProjects |-> HasNested(p),
              nestedProjects |->
                Some([i \in 1..Len(NestedOf(p)[1]) |->
                        StringifyProject(NestedOf(p)[1][i])])]

\* the CacheData object saveCache writes, as JSON.parse reads it back (the
\* timestamp is written and never read)
CacheData(projs, projectsDir, maxDepth, skipDirs) ==
    [projects |-> [i \in 1..Len(projs) |-> StringifyProject(projs[i])],
     projectsDir |-> projectsDir, maxDepth |-> maxDepth, skipDirs |-> skipDirs]

FileMissing == [state |-> "missing", data |-> None]
FileCorrupt == [state |-> "corrupt", data |-> None]
FileJson(data) == [state |-> "json", data |-> Some(data)]

\* how writeFileSync can end: written; thrown before the file is opened (the
\* file is as before); thrown after it was truncated (no JSON is left)
WriteOutcomes == {"ok", "failOpen", "failWrite"}

\* saveCache skipping the write of an empty result
saveCacheNonEmpty(file, projs, projectsDir, maxDepth, skipDirs, outcome) ==
    IF projs = <<>> \/ outcome = "failOpen" THEN file
    ELSE IF outcome = "ok"
    THEN FileJson(CacheData(projs, projectsDir, maxDepth, skipDirs))
    ELSE FileCorrupt

\* saveCache: the file after the call; the exception is caught and logged
saveCache(file, projs, projectsDir, maxDepth, skipDirs, outcome) ==
    IF outcome = "ok" THEN FileJson(CacheData(projs, projectsDir, maxDepth, skipDirs))
    ELSE IF outcome = "failOpen" THEN file
    ELSE FileCorrupt

\* loadCacheAsync comparing the directory and the depth only
loadCacheIgnoringSkipDirs(content, projectsDir, maxDepth, skipDirs) ==
    IF content.state # "json" THEN None
    ELSE LET cache == content.data[1]
         IN  IF \/ cache.projectsDir # projectsDir
                \/ cache.maxDepth # maxDepth
             THEN None
             ELSE Some(cache.projects)

\* loadCacheAsync after readFile returned `content`: Some(projects) or None
loadCacheParse(content, projectsDir, maxDepth, skipDirs) ==
    IF content.state # "json" THEN None
    ELSE LET cache == content.data[1]
         IN  IF \/ cache.projectsDir # projectsDir
                \/ cache.maxDepth # maxDepth
                \/ cache.skipDirs # skipDirs
             THEN None
             ELSE Some(cache.projects)

---------------------------------------------------------------------------
(* App: the list of the Projects tab *)

Names == {"alpha", "beta", "delta", "gamma"}

\* relative paths of one or two segments
RelSeqs == {<<n>> : n \in Names} \cup {<<n, m>> : n \in Names, m \in Names}

JoinAll(dir, segs) ==
    IF Len(segs) = 1 THEN join(dir, segs[1]) ELSE join(join(dir, segs[1]), segs[2])

JoinSlash(segs) ==
    IF Len(segs) = 1 THEN segs[1] ELSE segs[1] \o "/" \o segs[2]

\* basename(path)
basename(path) ==
    IF \E d \in {ExistingRoot, MissingRoot}, r \in RelSeqs : JoinAll(d, r) = path
    THEN LET r == CHOOSE r \in RelSeqs :
                    \E d \in {ExistingRoot, MissingRoot} : JoinAll(d, r) = path
         IN  r[Len(r)]
    ELSE path

\* getDisplayName: relative(projectsDir, path) || basename(path)
getDisplayName(path, projectsDir) ==
    IF \E r \in RelSeqs : JoinAll(projectsDir, r) = path
    THEN JoinSlash(CHOOSE r \in RelSeqs : JoinAll(projectsDir, r) = path)
    ELSE basename(path)

\* A shortcut's command is a list of shell commands; one command is modelled by
\* what the two regular expressions of App read from it:
\*   verb   "cd" when the text starts with "cd ", else "other"
\*   path   the argument of cd
\*   quoted whether the argument is wrapped in double quotes
CdCommand(path) == [verb |-> "cd", path |-> path, quoted |-> TRUE]

\* cmd.match(/^cd\s+"?([^"]+)"?$/)
CdPathOf(cmd) == IF cmd.verb = "cd" /\ cmd.path # "" THEN Some(cmd.path) ELSE None

\* cmd.match(/^cd\s+"([^"]+)"$/)
ExactCdPathOf(cmd) ==
    IF cmd.verb = "cd" /\ cmd.quoted /\ cmd.path # "" THEN Some(cmd.path) ELSE None

exactShortcutPaths(shortcuts) ==
    {sc.command[1].path : sc \in {shortcuts[i] : i \in
        {j \in 1..Len(shortcuts) :
            /\ Len(shortcuts[j].command) = 1
            /\ ExactCdPathOf(shortcuts[j].command[1]) # None}}}

\* triggersByPath.get(path) has a trigger
HasTrigger(shortcuts, path) ==
    \E i \in 1..Len(shortcuts) :
        /\ Len(shortcuts[i].command) > 0
        /\ CdPathOf(shortcuts[i].command[1]) = Some(path)

HeaderItem(label) ==
    [type |-> "header", label |-> label, path |-> "", selectionKey |-> NullStr,
     project |-> None, isShortcut |-> FALSE, isRecent |-> FALSE, shortcutId |-> ""]

BackItem ==
    [type |-> "back", label |-> "Back", path |-> "", selectionKey |-> "__back__",
     project |-> None, isShortcut |-> FALSE, isRecent |-> FALSE, shortcutId |-> ""]

\* the project a section entry falls back to when the tree has no such path
Fallback(name, path) == [name |-> name, path |-> path, isGitRepo |-> TRUE]

ShortcutItem(sc, tree) ==
    LET cds == SelectSeq(sc.command, LAMBDA c : c.verb = "cd")
        pathMatch == IF cds = <<>> THEN None ELSE CdPathOf(cds[1])
        scPath == IF pathMatch = None THEN "" ELSE pathMatch[1]
        found == IF scPath # "" THEN FindProject(tree, scPath) ELSE None
    IN  [type |-> "project", label |-> sc.name, path |-> scPath,
         selectionKey |-> "sc-" \o sc.id,
         project |-> IF found # None THEN found ELSE Some(Fallback(sc.name, scPath)),
         isShortcut |-> TRUE, isRecent |-> FALSE, shortcutId |-> sc.id]

\* the Recent entry keyed by its plain path, as the entry of the main list is
RecentItemPlainKey(entry, tree) ==
    LET found == FindProject(tree, entry.path)
    IN  [type |-> "project", label |-> entry.displayName, path |-> entry.path,
         selectionKey |-> entry.path,
         project |-> IF found # None THEN found
                     ELSE Some(Fallback(basename(entry.path), entry.path)),
         isShortcut |-> FALSE, isRecent |-> TRUE, shortcutId |-> ""]

RecentItem(entry, tree) ==
    LET found == FindProject(tree, entry.path)
    IN  [type |-> "project", label |-> entry.displayName, path |-> entry.path,
         selectionKey |-> "recent-" \o entry.path,
         project |-> IF found # None THEN found
                     ELSE Some(Fallback(basename(entry.path), entry.path)),
         isShortcut |-> FALSE, isRecent |-> TRUE, shortcutId |-> ""]

ProjectItem(project, shortcuts, recents) ==
    LET isSc == HasTrigger(shortcuts, project.path)
        isRec == (\E i \in 1..Len(recents) : recents[i].path = project.path) /\ ~isSc
    IN  [type |-> "project", label |-> project.name, path |-> project.path,
         selectionKey |-> project.path, project |-> Some(project),
         isShortcut |-> isSc, isRecent |-> isRec, shortcutId |-> ""]

\* unfilteredItems showing the Shortcuts section whatever settings.showShortcuts
UnfilteredItemsAnyShortcuts(nav, st, shortcuts, recents, term, tree) ==
    LET isAtRoot == Len(nav) = 1
        currentLevel == nav[Len(nav)]
        scSection ==
            IF isAtRoot /\ Len(shortcuts) > 0 /\ term = <<>>
            THEN <<HeaderItem("Shortcuts")>> \o
                 [i \in 1..Len(shortcuts) |-> ShortcutItem(shortcuts[i], tree)]
            ELSE <<>>
        shown == SelectSeq(recents,
                    LAMBDA e : e.path \notin exactShortcutPaths(shortcuts))
        recentSection ==
            IF /\ isAtRoot /\ st.showRecent /\ Len(recents) > 0 /\ term = <<>>
               /\ shown # <<>>
            THEN <<HeaderItem("Recent")>> \o
                 [i \in 1..Len(shown) |-> RecentItem(shown[i], tree)]
            ELSE <<>>
        sectionLabel ==
            IF isAtRoot THEN "All Projects"
            ELSE getDisplayName(IF currentLevel.parentPath = NullStr THEN ""
                                ELSE currentLevel.parentPath, st.projectsDir)
        level == <<HeaderItem(sectionLabel)>> \o
                 [i \in 1..Len(currentLevel.projects) |->
                    ProjectItem(currentLevel.projects[i], shortcuts, recents)]
        back == IF ~isAtRoot THEN <<BackItem>> ELSE <<>>
    IN  scSection \o recentSection \o level \o back

\* unfilteredItems keeping the Recent section while a search term is typed
UnfilteredItemsRecentWhileSearching(nav, st, shortcuts, recents, term, tree) ==
    LET isAtRoot == Len(nav) = 1
        currentLevel == nav[Len(nav)]
        scSection ==
            IF isAtRoot /\ st.showShortcuts /\ Len(shortcuts) > 0 /\ term = <<>>
            THEN <<HeaderItem("Shortcuts")>> \o
                 [i \in 1..Len(shortcuts) |-> ShortcutItem(shortcuts[i], tree)]
            ELSE <<>>
        shown == SelectSeq(recents,
                    LAMBDA e : e.path \notin exactShortcutPaths(shortcuts))
        recentSection ==
            IF /\ isAtRoot /\ st.showRecent /\ Len(recents) > 0
               /\ shown # <<>>
            THEN <<HeaderItem("Recent")>> \o
                 [i \in 1..Len(shown) |-> RecentItem(shown[i], tree)]
            ELSE <<>>
        sectionLabel ==
            IF isAtRoot THEN "All Projects"
            ELSE getDisplayName(IF currentLevel.parentPath = NullStr THEN ""
                                ELSE currentLevel.parentPath, st.projectsDir)
        level == <<HeaderItem(sectionLabel)>> \o
                 [i \in 1..Len(currentLevel.projects) |->
                    ProjectItem(currentLevel.projects[i], shortcuts, recents)]
        back == IF ~isAtRoot THEN <<BackItem>> ELSE <<>>
    IN  scSection \o recentSection \o level \o back

\* unfilteredItems for a navigation stack, settings, shortcuts, recent entries,
\* search term and tree (projects ?? [])
UnfilteredItems(nav, st, shortcuts, recents, term, tree) ==
    LET isAtRoot == Len(nav) = 1
        currentLevel == nav[Len(nav)]
        scSection ==
            IF isAtRoot /\ st.showShortcuts /\ Len(shortcuts) > 0 /\ term = <<>>
            THEN <<HeaderItem("Shortcuts")>> \o
                 [i \in 1..Len(shortcuts) |-> ShortcutItem(shortcuts[i], tree)]
            ELSE <<>>
        shown == SelectSeq(recents,
                    LAMBDA e : e.path \notin exactShortcutPaths(shortcuts))
        recentSection ==
            IF /\ isAtRoot /\ st.showRecent /\ Len(recents) > 0 /\ term = <<>>
               /\ shown # <<>>
            THEN <<HeaderItem("Recent")>> \o
                 [i \in 1..Len(shown) |-> RecentItem(shown[i], tree)]
            ELSE <<>>
        sectionLabel ==
            IF isAtRoot THEN "All Projects"
            ELSE getDisplayName(IF currentLevel.parentPath = NullStr THEN ""
                                ELSE currentLevel.parentPath, st.projectsDir)
        level == <<HeaderItem(sectionLabel)>> \o
                 [i \in 1..Len(currentLevel.projects) |->
                    ProjectItem(currentLevel.projects[i], shortcuts, recents)]
        back == IF ~isAtRoot THEN <<BackItem>> ELSE <<>>
    IN  scSection \o recentSection \o level \o back

\* a toLowerCase that leaves every character as it is
ToLowerNone(cs) == cs

\* s.toLowerCase() of the characters of a label or a search term
ToLowerChars(cs) ==
    [i \in 1..Len(cs) |->
        IF \E k \in 1..Len(Capitals) : Capitals[k] = cs[i]
        THEN Letters[CHOOSE k \in 1..Len(Capitals) : Capitals[k] = cs[i]]
        ELSE cs[i]]

\* hay.includes(needle)
Includes(hay, needle) ==
    \E i \in 0..(Len(hay) - Len(needle)) : SubSeq(hay, i + 1, i + Len(needle)) = needle

RECURSIVE FilterFromReversed(_, _, _, _)
\* the loop putting each match in front of the matches found before it
FilterFromReversed(list, i, lowerSearch, header) ==
    IF i > Len(list) THEN <<>>
    ELSE LET item == list[i]
         IN  IF item.type = "header"
             THEN FilterFromReversed(list, i + 1, lowerSearch, Some(item))
             ELSE IF item.type = "back"
             THEN FilterFromReversed(list, i + 1, lowerSearch, header)
             ELSE IF Includes(ToLowerChars(Chars(item.label)), lowerSearch)
             THEN FilterFromReversed(list, i + 1, lowerSearch, None) \o header \o <<item>>
             ELSE FilterFromReversed(list, i + 1, lowerSearch, header)

RECURSIVE FilterFrom(_, _, _, _)
\* the loop of the items memo over unfilteredItems[i..]: header is the pending
\* currentHeader (None once it has been added or when there is none)
FilterFrom(list, i, lowerSearch, header) ==
    IF i > Len(list) THEN <<>>
    ELSE LET item == list[i]
         IN  IF item.type = "header"
             THEN FilterFrom(list, i + 1, lowerSearch, Some(item))
             ELSE IF item.type = "back"
             THEN FilterFrom(list, i + 1, lowerSearch, header)
             ELSE IF Includes(ToLowerChars(Chars(item.label)), lowerSearch)
             THEN header \o <<item>> \o FilterFrom(list, i + 1, lowerSearch, None)
             ELSE FilterFrom(list, i + 1, lowerSearch, header)

\* the items memo keeping Back only through unfilteredItems: under a search
\* term it is filtered out with the entries that do not match
ItemsWithoutBack(nav, st, shortcuts, recents, term, tree) ==
    LET unfiltered == UnfilteredItems(nav, st, shortcuts, recents, term, tree)
    IN  IF term = <<>> THEN unfiltered
        ELSE FilterFrom(unfiltered, 1, ToLowerChars(term), None)

\* items: the list as displayed
Items(nav, st, shortcuts, recents, term, tree) ==
    LET unfiltered == UnfilteredItems(nav, st, shortcuts, recents, term, tree)
    IN  IF term = <<>> THEN unfiltered
        ELSE FilterFrom(unfiltered, 1, ToLowerChars(term), None) \o
             SelectSeq(unfiltered, LAMBDA it : it.type = "back")

\* Indices are those of the code: the first item has index 0.
ItemAt(items, idx) == items[idx + 1]

\* selectableIndices counting the headers in
selectableIndicesWithHeaders(items) == [i \in 1..Len(items) |-> i - 1]

\* selectableIndices
selectableIndices(items) ==
    SelectSeq([i \in 1..Len(items) |-> i - 1],
              LAMBDA idx : ItemAt(items, idx).type # "header")

\* keyToIndex.get(key): -1 for undefined; a later entry replaces an earlier one
keyToIndex(items, key) ==
    LET hits == {i \in 1..Len(items) :
                    items[i].type # "header" /\ items[i].selectionKey = key}
    IN  IF hits = {} THEN -1
        ELSE (CHOOSE i \in hits : \A j \in hits : j <= i) - 1

\* selectableIndices[0] ?? 0
FirstSelectable(items) ==
    LET sel == selectableIndices(items) IN IF sel = <<>> THEN 0 ELSE sel[1]

\* selectedIndex with 0 as the fallback instead of selectableIndices[0]
selectedIndexFallbackZero(items, key) ==
    IF key = NullStr THEN 0
    ELSE IF keyToIndex(items, key) # -1 THEN keyToIndex(items, key)
    ELSE 0

selectedIndex(items, key) ==
    IF key = NullStr THEN FirstSelectable(items)
    ELSE IF keyToIndex(items, key) # -1 THEN keyToIndex(items, key)
    ELSE FirstSelectable(items)

\* selectableIndices.indexOf(idx)
indexOf(sel, idx) ==
    IF \E k \in 1..Len(sel) : sel[k] = idx
    THEN (CHOOSE k \in 1..Len(sel) : sel[k] = idx) - 1
    ELSE -1

\* items[idx]?.selectionKey ?? null
KeyAt(items, idx) ==
    IF idx + 1 \in 1..Len(items) THEN ItemAt(items, idx).selectionKey ELSE NullStr

\* adjustScroll: the scroll offset after it
adjustScroll(offset, newSelectedIndex, st) ==
    IF newSelectedIndex < offset THEN newSelectedIndex
    ELSE IF newSelectedIndex >= offset + st.visibleRows
    THEN newSelectedIndex - st.visibleRows + 1
    ELSE offset

---------------------------------------------------------------------------
(* App: derived values of the current render *)

Tree == IF projects = None THEN <<>> ELSE projects[1]

items == Items(navStack, settings, shortcutEntries, recentEntries, searchTerm, Tree)

isAtRoot == Len(navStack) = 1

currentLevel == navStack[Len(navStack)]

RootLevel(projs) ==
    [projects |-> projs, parentPath |-> NullStr,
     savedScrollOffset |-> 0, savedSelectedKey |-> NullStr]

EmptyMap == [p \in {} |-> <<>>]

MapSet(m, k, v) == [p \in DOMAIN m \cup {k} |-> IF p = k THEN v ELSE m[p]]

\* The part of the state the navigation handlers read and write.
NavState ==
    [navStack |-> navStack, scrollOffset |-> scrollOffset,
     selectedKey |-> selectedKey, searchTerm |-> searchTerm,
     nestedCache |-> nestedCache]

\* The effect on [searchTerm, selectableIndices, items] after a handler took
\* the search term from `before` to nav.searchTerm: the selection goes to the
\* first selectable item of the new list and the list scrolls to the top.
searchEffect(before, nav) ==
    LET list == Items(nav.navStack, settings, shortcutEntries, recentEntries,
                      nav.searchTerm, Tree)
    IN  IF nav.searchTerm # before /\ selectableIndices(list) # <<>>
        THEN [nav EXCEPT !.selectedKey = KeyAt(list, selectableIndices(list)[1]),
                         !.scrollOffset = 0]
        ELSE nav

\* goBack popping the frame without restoring the saved viewport
goBackNoRestore(nav) ==
    IF Len(nav.navStack) > 1
    THEN [nav EXCEPT
            !.navStack = SubSeq(nav.navStack, 1, Len(nav.navStack) - 1),
            !.scrollOffset = 0,
            !.selectedKey = NullStr,
            !.searchTerm = <<>>]
    ELSE nav

\* drillDown(project) without the effects that follow the render
drillDownHandler(nav, project) ==
    IF ~HasNested(project) THEN nav
    ELSE LET cached == project.path \in DOMAIN nav.nestedCache
             nestedGitProjects ==
                IF cached THEN nav.nestedCache[project.path]
                ELSE collectNestedGitProjects(project)
             cache2 == IF cached THEN nav.nestedCache
                       ELSE MapSet(nav.nestedCache, project.path, nestedGitProjects)
             top == Len(nav.navStack)
             updatedStack ==
                [nav.navStack EXCEPT
                    ![top].savedScrollOffset = nav.scrollOffset,
                    ![top].savedSelectedKey = nav.selectedKey]
         IN  IF Len(nestedGitProjects) > 0
             THEN [navStack |-> Append(updatedStack,
                        [projects |-> nestedGitProjects,
                         parentPath |-> project.path,
                         savedScrollOffset |-> 0,
                         savedSelectedKey |-> NullStr]),
                   scrollOffset |-> 0,
                   selectedKey |-> NullStr,
                   searchTerm |-> <<>>,
                   nestedCache |-> cache2]
             ELSE [nav EXCEPT !.nestedCache = cache2]

\* goBack() without the effects that follow the render
\* goBack popping the top frame whatever the depth of the stack
goBackAlways(nav) ==
    LET below == Len(nav.navStack) - 1
    IN  [nav EXCEPT
            !.navStack = SubSeq(nav.navStack, 1, below),
            !.scrollOffset = IF below >= 1 THEN nav.navStack[below].savedScrollOffset
                             ELSE 0,
            !.selectedKey = IF below >= 1 THEN nav.navStack[below].savedSelectedKey
                            ELSE NullStr,
            !.searchTerm = <<>>]

goBackHandler(nav) ==
    IF Len(nav.navStack) > 1
    THEN LET previousLevel == nav.navStack[Len(nav.navStack) - 1]
         IN  [nav EXCEPT
                !.navStack = SubSeq(nav.navStack, 1, Len(nav.navStack) - 1),
                !.scrollOffset = previousLevel.savedScrollOffset,
                !.selectedKey = previousLevel.savedSelectedKey,
                !.searchTerm = <<>>]
    ELSE nav

drillDown(nav, project) == searchEffect(nav.searchTerm, drillDownHandler(nav, project))

goBack(nav) == searchEffect(nav.searchTerm, goBackHandler(nav))

SetNav(nav) ==
    /\ navStack' = nav.navStack
    /\ scrollOffset' = nav.scrollOffset
    /\ selectedKey' = nav.selectedKey
    /\ searchTerm' = nav.searchTerm
    /\ nestedCache' = nav.nestedCache

---------------------------------------------------------------------------
(* App: the scan coordinator *)

\* The state the coordinator's handlers and callbacks read and write.
AppState ==
    [projects |-> projects, isRefreshing |-> isRefreshing, settings |-> settings,
     signals |-> signals, hasShownResults |-> hasShownResults, load |-> load,
     scans |-> scans, nScans |-> nScans, cacheFile |-> cacheFile,
     lastSave |-> lastSave, nestedCache |-> nestedCache, navStack |-> navStack,
     selectedKey |-> selectedKey, scrollOffset |-> scrollOffset]

SetApp(a) ==
    /\ projects' = a.projects
    /\ isRefreshing' = a.isRefreshing
    /\ settings' = a.settings
    /\ signals' = a.signals
    /\ hasShownResults' = a.hasShownResults
    /\ load' = a.load
    /\ scans' = a.scans
    /\ nScans' = a.nScans
    /\ cacheFile' = a.cacheFile
    /\ lastSave' = a.lastSave
    /\ nestedCache' = a.nestedCache
    /\ navStack' = a.navStack
    /\ selectedKey' = a.selectedKey
    /\ scrollOffset' = a.scrollOffset

\* scanAbortSignal.current.aborted
CurrentAborted(a) == a.signals[Len(a.signals)]

\* a scanProjectsAsync call in flight: the settings and the signal object it was
\* given, and the handler whose callback waits for it
NewScan(a, kind, config) ==
    [id |-> a.nScans + 1, kind |-> kind, config |-> config,
     signal |-> Len(a.signals) + 1]

\* setIsRefreshing(true); scanAbortSignal.current = { aborted: false };
\* scanProjectsAsync(config, scanAbortSignal.current)
StartScan(a, kind, config) ==
    [a EXCEPT !.isRefreshing = TRUE,
              !.signals = Append(a.signals, FALSE),
              !.scans = a.scans \cup {NewScan(a, kind, config)},
              !.nScans = a.nScans + 1]

\* the mount effect: the cache load and the scan start together
mountEffect(a) ==
    [StartScan(a, "mount", a.settings) EXCEPT
        !.hasShownResults = FALSE,
        !.load = [phase |-> "access", config |-> a.settings,
                  content |-> FileMissing, shown |-> FALSE]]

\* refreshProjects without its isRefreshing guard
refreshUnguarded(a) == StartScan(a, "refresh", a.settings)

refreshProjects(a) ==
    IF a.isRefreshing THEN a
    ELSE StartScan(a, "refresh", a.settings)

\* needsRescan comparing the projects directory only
needsRescanDirOnly(old, newSettings) ==
    newSettings.projectsDir # old.projectsDir

needsRescan(old, newSettings) ==
    \/ newSettings.projectsDir # old.projectsDir
    \/ newSettings.maxDepth # old.maxDepth
    \/ newSettings.skipDirs # old.skipDirs

handleSettingsSave(a, newSettings) ==
    LET saved == [a EXCEPT !.settings = newSettings]
    IN  IF needsRescan(a.settings, newSettings)
        THEN StartScan(saved, "settings", newSettings)
        ELSE saved

\* the test of the cache callback of the mount effect
cacheCallbackApplies(a, cached) ==
    cached # None /\ ~CurrentAborted(a) /\ ~a.hasShownResults

\* the .then callback of loadCacheAsync in the mount effect, followed by the
\* [projects] effect that resets the navigation stack
cacheCallback(a, cached) ==
    IF cacheCallbackApplies(a, cached)
    THEN [a EXCEPT !.projects = cached,
                   !.hasShownResults = TRUE,
                   !.navStack = <<RootLevel(cached[1])>>,
                   !.load.phase = "done",
                   !.load.shown = TRUE]
    ELSE [a EXCEPT !.load.phase = "done"]

\* a scan callback that yields to a tree already shown
scanAppliesUnlessShown(a, s) == ~CurrentAborted(a) /\ ~a.hasShownResults

\* a scan callback testing the signal its scan was started with
scanAppliesOwnSignal(a, s) == ~a.signals[s.signal]

\* the test of the three scan callbacks: !scanAbortSignal.current.aborted
scanCallbackApplies(a, s) == ~CurrentAborted(a)

\* setNestedCache(new Map()) in the callbacks of refreshProjects and
\* handleSettingsSave; the mount effect's callback leaves the map alone
nestedCacheAfterScan(a, s) == IF s.kind = "mount" THEN a.nestedCache ELSE EmptyMap

\* the arguments of a saveCache call
SaveArgs(s, result) ==
    [scan |-> s.id, kind |-> s.kind, projects |-> result, projectsDir |-> s.config.projectsDir,
     maxDepth |-> s.config.maxDepth, skipDirs |-> s.config.skipDirs]

\* a scan callback that saves with the settings of the render it runs in
scanCallbackSavesCurrent(a, s, result, outcome) ==
    LET left == [a EXCEPT !.scans = a.scans \ {s}]
    IN  IF scanCallbackApplies(a, s)
        THEN [left EXCEPT
                !.projects = Some(result),
                !.isRefreshing = FALSE,
                !.hasShownResults = (a.hasShownResults \/ s.kind = "mount"),
                !.cacheFile = saveCache(a.cacheFile, result, a.settings.projectsDir,
                                        a.settings.maxDepth, a.settings.skipDirs, outcome),
                !.lastSave = Some(SaveArgs(s, result)),
                !.navStack = <<RootLevel(result)>>,
                !.nestedCache = nestedCacheAfterScan(a, s),
                !.scrollOffset = IF s.kind = "settings" THEN 0 ELSE a.scrollOffset,
                !.selectedKey = IF s.kind = "settings" THEN NullStr ELSE a.selectedKey]
        ELSE left

\* a reset that keeps the level the user is in when the list is drilled
scanCallbackKeepsLevel(a, s, result, outcome) ==
    LET left == [a EXCEPT !.scans = a.scans \ {s}]
    IN  IF scanCallbackApplies(a, s)
        THEN [left EXCEPT
                !.projects = Some(result),
                !.isRefreshing = FALSE,
                !.hasShownResults = (a.hasShownResults \/ s.kind = "mount"),
                !.cacheFile = saveCache(a.cacheFile, result, s.config.projectsDir,
                                        s.config.maxDepth, s.config.skipDirs, outcome),
                !.lastSave = Some(SaveArgs(s, result)),
                !.navStack = IF Len(a.navStack) = 1 THEN <<RootLevel(result)>>
                             ELSE a.navStack,
                !.nestedCache = nestedCacheAfterScan(a, s),
                !.scrollOffset = IF s.kind = "settings" THEN 0 ELSE a.scrollOffset,
                !.selectedKey = IF s.kind = "settings" THEN NullStr ELSE a.selectedKey]
        ELSE left

\* a scan callback that saves before it sets the state and gives up when the
\* write fails
scanCallbackSaveFirst(a, s, result, outcome) ==
    LET left == [a EXCEPT !.scans = a.scans \ {s}]
        file == saveCache(a.cacheFile, result, s.config.projectsDir,
                          s.config.maxDepth, s.config.skipDirs, outcome)
    IN  IF ~scanCallbackApplies(a, s) THEN left
        ELSE IF outcome # "ok"
        THEN [left EXCEPT !.cacheFile = file, !.lastSave = Some(SaveArgs(s, result))]
        ELSE [left EXCEPT
                !.projects = Some(result),
                !.isRefreshing = FALSE,
                !.hasShownResults = (a.hasShownResults \/ s.kind = "mount"),
                !.cacheFile = file,
                !.lastSave = Some(SaveArgs(s, result)),
                !.navStack = <<RootLevel(result)>>,
                !.nestedCache = nestedCacheAfterScan(a, s),
                !.scrollOffset = IF s.kind = "settings" THEN 0 ELSE a.scrollOffset,
                !.selectedKey = IF s.kind = "settings" THEN NullStr ELSE a.selectedKey]

\* the .then callback of scan s (of the mount effect, refreshProjects or
\* handleSettingsSave) for the scan's result and the outcome of the cache
\* write, followed by the [projects] effect
scanCallback(a, s, result, outcome) ==
    LET left == [a EXCEPT !.scans = a.scans \ {s}]
    IN  IF scanCallbackApplies(a, s)
        THEN [left EXCEPT
                !.projects = Some(result),
                !.isRefreshing = FALSE,
                !.hasShownResults = (a.hasShownResults \/ s.kind = "mount"),
                !.cacheFile = saveCache(a.cacheFile, result, s.config.projectsDir,
                                        s.config.maxDepth, s.config.skipDirs, outcome),
                !.lastSave = Some(SaveArgs(s, result)),
                !.navStack = <<RootLevel(result)>>,
                !.nestedCache = nestedCacheAfterScan(a, s),
                !.scrollOffset = IF s.kind = "settings" THEN 0 ELSE a.scrollOffset,
                !.selectedKey = IF s.kind = "settings" THEN NullStr ELSE a.selectedKey]
        ELSE left

\* what scan s can resolve with in the current state
ScanResults(s) == scanProjectsAsync(s.config, signals[s.signal], fs)

IdleLoad == [phase |-> "idle", config |-> S0, content |-> FileMissing, shown |-> FALSE]

---------------------------------------------------------------------------
(* The session: construction *)

MaxSearchLen == 1

SearchChars == {"e"}

\* the cache records a previous session can have left behind
OldRecords ==
    {FileJson(CacheData(t, c.projectsDir, c.maxDepth, c.skipDirs)) :
        t \in scanProjectsAsync(S0, FALSE, FsSmall), c \in {S0, SSkip}}

InitialCacheFiles == {FileMissing, FileCorrupt} \cup OldRecords

InitialShortcuts ==
    <<[id |-> "1", name |-> "alpha", trigger |-> "a", caseSensitive |-> FALSE,
       command |-> <<CdCommand(join(ExistingRoot, "alpha"))>>]>>

InitialRecent ==
    <<[path |-> join(ExistingRoot, "beta"), displayName |-> "beta"]>>

Init ==
    /\ phase = "constructed"
    /\ currentTab = 0
    /\ projects = None
    /\ isRefreshing = FALSE
    /\ settings \in InitialSettingsChoices
    /\ signals = <<FALSE>>
    /\ hasShownResults = FALSE
    /\ load = IdleLoad
    /\ scans = {}
    /\ nScans = 0
    /\ cacheFile \in InitialCacheFiles
    /\ lastSave = None
    /\ fs \in FsStates
    /\ nestedCache = EmptyMap
    /\ navStack = <<RootLevel(<<>>)>>
    /\ selectedKey = NullStr
    /\ scrollOffset = 0
    /\ searchTerm = <<>>
    /\ recentEntries = InitialRecent
    /\ shortcutEntries = InitialShortcuts
    /\ shortcutsFile = shortcutEntries
    /\ exitResult = None
    /\ confirmDeleteId = NullStr

navVars == <<navStack, selectedKey, scrollOffset, searchTerm, nestedCache>>

coordVars == <<projects, isRefreshing, settings, signals, scans, nScans, load,
               cacheFile>>

fixedVars == <<recentEntries, shortcutEntries, fs, confirmDeleteId, shortcutsFile>>

---------------------------------------------------------------------------
(* The mount effect and the completions of the promises *)

otherVars == <<recentEntries, shortcutEntries, exitResult, confirmDeleteId,
               shortcutsFile>>

\* useEffect(() => {...}, [])
Mount ==
    /\ phase = "constructed"
    /\ phase' = "mounted"
    /\ SetApp(mountEffect(AppState))
    /\ UNCHANGED <<currentTab, searchTerm, fs, otherVars>>

\* loadCacheAsync: await pathExists(CACHE_FILE)
CacheLoadAccess ==
    /\ load.phase = "access"
    /\ SetApp([AppState EXCEPT !.load.phase =
                    IF cacheFile.state = "missing" THEN "parsed" ELSE "read"])
    /\ UNCHANGED <<phase, currentTab, searchTerm, fs, otherVars>>

\* loadCacheAsync: await readFile(CACHE_FILE, "utf-8")
CacheLoadRead ==
    /\ load.phase = "read"
    /\ SetApp([AppState EXCEPT !.load.phase = "parsed", !.load.content = cacheFile])
    /\ UNCHANGED <<phase, currentTab, searchTerm, fs, otherVars>>

\* what the cache load in flight resolves with once the file was read
Cached ==
    loadCacheParse(load.content, load.config.projectsDir,
                   load.config.maxDepth, load.config.skipDirs)

\* loadCacheAsync returns and its callback runs
CacheLoadDone ==
    /\ load.phase = "parsed"
    /\ SetApp(cacheCallback(AppState, Cached))
    /\ UNCHANGED <<phase, currentTab, searchTerm, fs, otherVars>>

\* a scan in flight resolves and its callback runs
ScanComplete ==
    \E s \in scans :
        \E result \in ScanResults(s) :
            \E outcome \in WriteOutcomes :
                /\ SetApp(scanCallback(AppState, s, result, outcome))
                /\ UNCHANGED <<phase, currentTab, searchTerm, fs, otherVars>>

\* the directories below the projects directory change while the session runs
FsChange ==
    /\ phase = "mounted"
    /\ fs' \in FsStates \ {fs}
    /\ UNCHANGED <<phase, currentTab, coordVars, hasShownResults, lastSave,
                   navVars, otherVars>>

---------------------------------------------------------------------------
(* Keys on the Projects tab (useInput) *)

\* the handler reaches its key tests: the Projects tab is shown and no delete
\* confirmation is pending
OnProjectsTab == phase = "mounted" /\ currentTab = 0 /\ confirmDeleteId = NullStr

selIdx == selectedIndex(items, selectedKey)

currentPos == indexOf(selectableIndices(items), selIdx)

\* items[selectedIndex], None when the list has no such index
currentItem == IF selIdx + 1 \in 1..Len(items) THEN Some(ItemAt(items, selIdx)) ELSE None

\* cycleTab(reverse)
cycleTab(tab, reverse) ==
    IF reverse THEN (IF tab <= 0 THEN 2 ELSE tab - 1) ELSE (tab + 1) % 3

\* ink's exit() / unmount(): the cleanup of the mount effect runs
Leave(result) ==
    /\ phase' = "unmounted"
    /\ signals' = [signals EXCEPT ![Len(signals)] = TRUE]
    /\ exitResult' = result
    /\ UNCHANGED <<currentTab, projects, isRefreshing, settings,
                   hasShownResults, load, scans, nScans, cacheFile, lastSave,
                   navVars, fixedVars>>

KeyTab ==
    /\ OnProjectsTab
    /\ \E reverse \in BOOLEAN : currentTab' = cycleTab(currentTab, reverse)
    /\ UNCHANGED <<phase, coordVars, hasShownResults, lastSave, navVars,
                   fixedVars, exitResult>>

\* Ctrl+R
KeyRefresh ==
    /\ OnProjectsTab
    /\ refreshProjects(AppState).nScans <= MaxScans
    /\ SetApp(refreshProjects(AppState))
    /\ UNCHANGED <<phase, currentTab, searchTerm, fs, otherVars>>

KeyEscape ==
    /\ OnProjectsTab
    /\ IF searchTerm # <<>>
       THEN /\ SetNav(searchEffect(searchTerm, [NavState EXCEPT !.searchTerm = <<>>]))
            /\ UNCHANGED <<phase, signals, exitResult>>
       ELSE IF ~isAtRoot
       THEN /\ SetNav(goBack(NavState))
            /\ UNCHANGED <<phase, signals, exitResult>>
       ELSE /\ phase' = "unmounted"
            /\ signals' = [signals EXCEPT ![Len(signals)] = TRUE]
            /\ exitResult' = None
            /\ UNCHANGED navVars
    /\ UNCHANGED <<currentTab, projects, isRefreshing, settings,
                   hasShownResults, load, scans, nScans, cacheFile, lastSave,
                   fixedVars>>

KeyBackspace ==
    /\ OnProjectsTab
    /\ IF Len(searchTerm) > 0
       THEN SetNav(searchEffect(searchTerm,
                [NavState EXCEPT !.searchTerm = SubSeq(searchTerm, 1, Len(searchTerm) - 1)]))
       ELSE IF ~isAtRoot THEN SetNav(goBack(NavState))
       ELSE UNCHANGED navVars
    /\ UNCHANGED <<phase, currentTab, coordVars, hasShownResults, lastSave,
                   fixedVars, exitResult>>

\* a printable character is appended to the search term
KeyChar ==
    /\ OnProjectsTab
    /\ Len(searchTerm) < MaxSearchLen
    /\ \E ch \in SearchChars :
          SetNav(searchEffect(searchTerm,
                [NavState EXCEPT !.searchTerm = Append(searchTerm, ch)]))
    /\ UNCHANGED <<phase, currentTab, coordVars, hasShownResults, lastSave,
                   fixedVars, exitResult>>

KeyEnter ==
    /\ OnProjectsTab
    /\ IF currentItem # None /\ currentItem[1].type = "back"
       THEN /\ SetNav(goBack(NavState))
            /\ UNCHANGED <<phase, signals, exitResult>>
       ELSE IF currentItem # None /\ currentItem[1].type = "project"
       THEN LET it == currentItem[1]
                hits == SelectSeq(shortcutEntries, LAMBDA sc : sc.id = it.shortcutId)
            IN  /\ phase' = "unmounted"
                /\ signals' = [signals EXCEPT ![Len(signals)] = TRUE]
                /\ exitResult' =
                     IF it.isShortcut /\ it.shortcutId # "" /\ hits # <<>>
                     THEN Some([kind |-> "command", value |-> hits[1].command])
                     ELSE Some([kind |-> "select", value |-> <<it.project[1].path>>])
                /\ UNCHANGED navVars
       ELSE UNCHANGED <<phase, signals, exitResult, navVars>>
    /\ UNCHANGED <<currentTab, projects, isRefreshing, settings,
                   hasShownResults, load, scans, nScans, cacheFile, lastSave,
                   fixedVars>>

KeyRight ==
    /\ OnProjectsTab
    /\ IF /\ currentItem # None
          /\ currentItem[1].type = "project"
          /\ currentItem[1].project # None
          /\ HasNested(currentItem[1].project[1])
       THEN SetNav(drillDown(NavState, currentItem[1].project[1]))
       ELSE UNCHANGED navVars
    /\ UNCHANGED <<phase, currentTab, coordVars, hasShownResults, lastSave,
                   fixedVars, exitResult>>

KeyLeft ==
    /\ OnProjectsTab
    /\ IF ~isAtRoot THEN SetNav(goBack(NavState)) ELSE UNCHANGED navVars
    /\ UNCHANGED <<phase, currentTab, coordVars, hasShownResults, lastSave,
                   fixedVars, exitResult>>

PAGE_SIZE == 10

Max(a, b) == IF a >= b THEN a ELSE b

Min(a, b) == IF a <= b THEN a ELSE b

\* setSelectedKey(items[selectableIndices[newPos]]?.selectionKey ?? null) and
\* the scroll offset set with it
MoveTo(list, newPos, newScroll) ==
    [selectedKey |-> KeyAt(list, selectableIndices(list)[newPos + 1]),
     scrollOffset |-> newScroll]

\* key.upArrow on list with key selected: the selection key and the scroll
\* offset after it
upArrow(list, key, offset, st) ==
    LET sel == selectableIndices(list)
        pos == indexOf(sel, selectedIndex(list, key))
    IN  IF Len(sel) = 0 THEN [selectedKey |-> key, scrollOffset |-> offset]
        ELSE IF pos <= 0
        THEN MoveTo(list, Len(sel) - 1, Max(0, Len(list) - st.visibleRows))
        ELSE MoveTo(list, pos - 1, adjustScroll(offset, sel[pos], st))

\* key.downArrow
downArrow(list, key, offset, st) ==
    LET sel == selectableIndices(list)
        pos == indexOf(sel, selectedIndex(list, key))
    IN  IF Len(sel) = 0 THEN [selectedKey |-> key, scrollOffset |-> offset]
        ELSE IF pos >= Len(sel) - 1 THEN MoveTo(list, 0, 0)
        ELSE MoveTo(list, pos + 1, adjustScroll(offset, sel[pos + 2], st))

\* key.pageUp
pageUp(list, key, offset, st) ==
    LET sel == selectableIndices(list)
        pos == indexOf(sel, selectedIndex(list, key))
        newPos == Max(0, pos - PAGE_SIZE)
    IN  IF Len(sel) = 0 THEN [selectedKey |-> key, scrollOffset |-> offset]
        ELSE IF newPos = 0 THEN MoveTo(list, 0, 0)
        ELSE MoveTo(list, newPos, adjustScroll(offset, sel[newPos + 1], st))

\* key.pageDown
pageDown(list, key, offset, st) ==
    LET sel == selectableIndices(list)
        pos == indexOf(sel, selectedIndex(list, key))
        newPos == Min(Len(sel) - 1, pos + PAGE_SIZE)
    IN  IF Len(sel) = 0 THEN [selectedKey |-> key, scrollOffset |-> offset]
        ELSE MoveTo(list, newPos, adjustScroll(offset, sel[newPos + 1], st))

\* the selection key and scroll offset a key handler leaves
SetSelection(after) ==
    /\ selectedKey' = after.selectedKey
    /\ scrollOffset' = after.scrollOffset
    /\ UNCHANGED <<navStack, searchTerm, nestedCache>>

KeyUp ==
    /\ OnProjectsTab
    /\ SetSelection(upArrow(items, selectedKey, scrollOffset, settings))
    /\ UNCHANGED <<phase, currentTab, coordVars, hasShownResults, lastSave,
                   fixedVars, exitResult>>

KeyDown ==
    /\ OnProjectsTab
    /\ SetSelection(downArrow(items, selectedKey, scrollOffset, settings))
    /\ UNCHANGED <<phase, currentTab, coordVars, hasShownResults, lastSave,
                   fixedVars, exitResult>>

KeyPageUp ==
    /\ OnProjectsTab
    /\ SetSelection(pageUp(items, selectedKey, scrollOffset, settings))
    /\ UNCHANGED <<phase, currentTab, coordVars, hasShownResults, lastSave,
                   fixedVars, exitResult>>

KeyPageDown ==
    /\ OnProjectsTab
    /\ SetSelection(pageDown(items, selectedKey, scrollOffset, settings))
    /\ UNCHANGED <<phase, currentTab, coordVars, hasShownResults, lastSave,
                   fixedVars, exitResult>>

\* Ctrl+C (exitOnCtrlC) on any tab
CtrlC ==
    /\ phase = "mounted"
    /\ Leave(None)

---------------------------------------------------------------------------
(* The other two tabs *)

\* ShortcutsEditor: onTab (Tab / Shift+Tab) or onClose
ShortcutsTabLeave ==
    /\ phase = "mounted"
    /\ currentTab = 1
    /\ \E target \in {cycleTab(1, FALSE), cycleTab(1, TRUE), 0} : currentTab' = target
    /\ UNCHANGED <<phase, coordVars, hasShownResults, lastSave, navVars,
                   fixedVars, exitResult>>

\* SettingsScreen: the edited settings are saved when the screen is left,
\* with Tab / Shift+Tab (onSave; onTab) or Escape (onSave; onClose)
SettingsLeave ==
    /\ phase = "mounted"
    /\ currentTab = 2
    /\ \E newSettings \in SettingsChoices :
          /\ handleSettingsSave(AppState, newSettings).nScans <= MaxScans
          /\ SetApp(handleSettingsSave(AppState, newSettings))
    /\ \E target \in {cycleTab(2, FALSE), cycleTab(2, TRUE)} : currentTab' = target
    /\ UNCHANGED <<phase, searchTerm, fs, otherVars>>

Next ==
    \/ Mount
    \/ CacheLoadAccess
    \/ CacheLoadRead
    \/ CacheLoadDone
    \/ ScanComplete
    \/ FsChange
    \/ KeyTab
    \/ KeyRefresh
    \/ KeyEscape
    \/ KeyEnter
    \/ KeyRight
    \/ KeyLeft
    \/ CtrlC
    \/ ShortcutsTabLeave
    \/ SettingsLeave

\* The session from construction on: loading, scanning, settings, drilling in
\* and out, leaving.
Spec == Init /\ [][Next]_vars

---------------------------------------------------------------------------
(* Browsing a loaded tree *)

\* the trees a session can show once its first scan is done
LoadedTrees ==
    UNION {scanProjectsAsync(S0, FALSE, d) : d \in {FsSmall, FsLarge}}

\* a session whose mount scan found tree t and wrote it to the cache, the
\* cache load having found no file
Loaded(t) ==
    /\ phase = "mounted"
    /\ currentTab = 0
    /\ projects = Some(t)
    /\ isRefreshing = FALSE
    /\ settings = S0
    /\ signals = <<FALSE, FALSE>>
    /\ hasShownResults = TRUE
    /\ load = [phase |-> "done", config |-> S0, content |-> FileMissing,
               shown |-> FALSE]
    /\ scans = {}
    /\ nScans = 1
    /\ cacheFile = saveCache(FileMissing, t, S0.projectsDir, S0.maxDepth,
                             S0.skipDirs, "ok")
    /\ lastSave = Some(SaveArgs([id |-> 1, kind |-> "mount", config |-> S0], t))
    /\ nestedCache = EmptyMap
    /\ navStack = <<RootLevel(t)>>
    /\ selectedKey = NullStr
    /\ scrollOffset = 0
    /\ searchTerm = <<>>
    /\ exitResult = None
    /\ confirmDeleteId = NullStr

NavInit ==
    /\ \E t \in LoadedTrees : Loaded(t) /\ fs \in {FsSmall, FsLarge}
    /\ recentEntries \in {<<>>, InitialRecent}
    /\ shortcutEntries \in {<<>>, InitialShortcuts}
    /\ shortcutsFile = shortcutEntries

NavNext ==
    \/ KeyEscape
    \/ KeyBackspace
    \/ KeyChar
    \/ KeyEnter
    \/ KeyRight
    \/ KeyLeft
    \/ KeyUp
    \/ KeyDown
    \/ KeyPageUp
    \/ KeyPageDown

\* The keys of the project list on a loaded tree.
NavSpec == NavInit /\ [][NavNext]_vars

---------------------------------------------------------------------------
(* Properties: scan and cache coordination *)

\* cancel has been invoked: the shared flag is set
Cancelled == CurrentAborted(AppState)

\* the state after scan s completes with `result` and write outcome `outcome`
AfterScan(s, result, outcome) == scanCallback(AppState, s, result, outcome)

\* the state after the cache load in flight completes
AfterCacheLoad == cacheCallback(AppState, Cached)

\* the cache record save(result, parameters of s) leaves on disk
RecordOf(s, result) ==
    FileJson(CacheData(result, s.config.projectsDir, s.config.maxDepth,
                       s.config.skipDirs))

\* C1: During the initial load, wherever the cache load stands, when the
\* initial scan completes and cancel has not been invoked, the displayed tree
\* becomes exactly the scan's result (over a cached tree or over nothing, an
\* empty result included) and save is called with that result and the
\* parameters the scan was started with.
C1_InitialScanReplacesAndSaves ==
    \A s \in scans :
        (s.kind = "mount" /\ ~Cancelled) =>
            \A result \in ScanResults(s), outcome \in WriteOutcomes :
                LET after == AfterScan(s, result, outcome)
                IN  /\ after.projects = Some(result)
                    /\ after.lastSave = Some(SaveArgs(s, result))
                    /\ s.config = load.config

\* the initial scan has completed with an empty result over a cached tree
\* that had been displayed, and save was called with the empty result
C1_Witness ==
    /\ ~Cancelled
    /\ load.shown
    /\ scans = {}
    /\ lastSave # None
    /\ lastSave[1].kind = "mount"
    /\ lastSave[1].projects = <<>>
    /\ projects = Some(<<>>)

\* C2: A cache-load result is applied to the display only if no result has been
\* shown yet in the session: once a scan result (of the initial load, a refresh
\* or a settings rescan) has been displayed, a cache load that completes later
\* is never displayed.  A scan result has been displayed exactly when save has
\* been called.
C2_CacheNeverShownAfterScanResult ==
    (lastSave # None /\ load.phase = "parsed") => ~AfterCacheLoad.load.shown

\* C3: Once cancel has been invoked, the completion of the cache load or of any
\* scan still in flight leaves the displayed tree, the navigation stack and the
\* cache record as they are.
C3_NoEffectAfterCancel ==
    Cancelled =>
        /\ \A s \in scans :
              \A result \in ScanResults(s), outcome \in WriteOutcomes :
                  LET after == AfterScan(s, result, outcome)
                  IN  /\ after.projects = projects
                      /\ after.navStack = navStack
                      /\ after.cacheFile = cacheFile
        /\ load.phase = "parsed" =>
              /\ AfterCacheLoad.projects = projects
              /\ AfterCacheLoad.navStack = navStack
              /\ AfterCacheLoad.cacheFile = cacheFile

\* the session was cancelled before anything was displayed; the cache load
\* (which found a matching record) and both scans in flight have completed since
C3_Witness ==
    /\ Cancelled
    /\ nScans = 2
    /\ scans = {}
    /\ load.phase = "done"
    /\ Cached # None
    /\ projects = None
    /\ lastSave = None

\* C4: At every moment at most one scan is in flight, counting the initial
\* scan, the scans started by refresh and those started by a settings change.
C4_AtMostOneScanInFlight == Cardinality(scans) <= 1

\* C5: refresh invoked while the refreshing indicator is set is a no-op: it
\* starts no scan and leaves the displayed tree, the navigation stack, the
\* cancellation flag and the cache record unchanged.
C5_RefreshWhileRefreshingIsNoOp ==
    isRefreshing =>
        LET after == refreshProjects(AppState)
        IN  /\ after.scans = scans
            /\ after.nScans = nScans
            /\ after.projects = projects
            /\ after.navStack = navStack
            /\ after.signals = signals
            /\ after.cacheFile = cacheFile

\* the refresh key can be pressed while a rescan runs over a displayed tree
\* the user has drilled into
C5_Witness ==
    /\ OnProjectsTab
    /\ isRefreshing
    /\ scans # {}
    /\ projects # None
    /\ Len(navStack) = 2

\* refresh invoked in a state where the refreshing indicator is clear starts
\* exactly one scan, with the current settings, and no cache load
RefreshStartsOneScan ==
    ~isRefreshing =>
        LET after == refreshProjects(AppState)
        IN  /\ scans \subseteq after.scans
            /\ Cardinality(after.scans \ scans) = 1
            /\ \A s \in after.scans \ scans : s.config = settings
            /\ after.nScans = nScans + 1
            /\ after.load = load
            /\ after.cacheFile = cacheFile

\* C6 (as stated): refresh invoked while no scan is in progress starts exactly
\* one scan and never reads the cache; when that scan completes uncancelled,
\* the displayed tree and the cache record are both replaced by its result,
\* whatever the result.
C6_RefreshReplacesTreeAndRecord ==
    /\ RefreshStartsOneScan
    /\ \A s \in scans :
          (s.kind = "refresh" /\ ~Cancelled) =>
              \A result \in ScanResults(s), outcome \in WriteOutcomes :
                  LET after == AfterScan(s, result, outcome)
                  IN  /\ after.projects = Some(result)
                      /\ after.load = load
                      /\ after.cacheFile = RecordOf(s, result)

\* C6 (amended): refresh invoked while the refreshing indicator is clear starts
\* exactly one scan and never reads the cache; when that scan completes
\* uncancelled, the displayed tree is replaced by its result, whatever the
\* result, and save is called with the result and the scan's parameters: the
\* cache record is replaced whenever the write succeeds.
C6_RefreshReplacesTreeAndSaves ==
    /\ RefreshStartsOneScan
    /\ \A s \in scans :
          (s.kind = "refresh" /\ ~Cancelled) =>
              \A result \in ScanResults(s), outcome \in WriteOutcomes :
                  LET after == AfterScan(s, result, outcome)
                  IN  /\ after.projects = Some(result)
                      /\ after.load = load
                      /\ after.lastSave = Some(SaveArgs(s, result))
                      /\ outcome = "ok" => after.cacheFile = RecordOf(s, result)

\* a refresh has completed with an empty result, which is displayed and is the
\* cache record
C6_Witness ==
    /\ ~Cancelled
    /\ lastSave # None
    /\ lastSave[1].kind = "refresh"
    /\ lastSave[1].projects = <<>>
    /\ projects = Some(<<>>)
    /\ cacheFile = FileJson(CacheData(<<>>, settings.projectsDir,
                                      settings.maxDepth, settings.skipDirs))

\* one of the three scan settings differs
ScanSettingsDiffer(old, new) ==
    \/ new.projectsDir # old.projectsDir
    \/ new.maxDepth # old.maxDepth
    \/ new.skipDirs # old.skipDirs

\* saving settings starts a rescan, with the new settings, if and only if one
\* of the three scan settings differs; otherwise the displayed tree and the
\* cache record stay as they are
SaveStartsRescanIffDiffer ==
    \A newSettings \in SettingsChoices :
        LET after == handleSettingsSave(AppState, newSettings)
        IN  /\ after.settings = newSettings
            /\ after.projects = projects
            /\ after.cacheFile = cacheFile
            /\ scans \subseteq after.scans
            /\ IF ScanSettingsDiffer(settings, newSettings)
               THEN /\ Cardinality(after.scans \ scans) = 1
                    /\ \A s \in after.scans \ scans : s.config = newSettings
               ELSE after.scans = scans

\* C7 (as stated): saving settings starts a rescan if and only if projectsDir,
\* maxDepth or skipDirs differs from the previous settings; when that rescan
\* completes uncancelled, the displayed tree and the cache record are those of
\* the new parameters; a save that changes none of the three starts no scan and
\* leaves the tree and the cache record unchanged.
C7_SettingsRescanReplacesTreeAndRecord ==
    /\ SaveStartsRescanIffDiffer
    /\ \A s \in scans :
          (s.kind = "settings" /\ ~Cancelled) =>
              \A result \in ScanResults(s), outcome \in WriteOutcomes :
                  LET after == AfterScan(s, result, outcome)
                  IN  /\ after.projects = Some(result)
                      /\ after.cacheFile = RecordOf(s, result)

\* C7 (amended): as C7, except that on completion of the rescan save is called
\* with the result and the new parameters, and the cache record is that of the
\* new parameters whenever the write succeeds.
C7_SettingsRescanReplacesTreeAndSaves ==
    /\ SaveStartsRescanIffDiffer
    /\ \A s \in scans :
          (s.kind = "settings" /\ ~Cancelled) =>
              \A result \in ScanResults(s), outcome \in WriteOutcomes :
                  LET after == AfterScan(s, result, outcome)
                  IN  /\ after.projects = Some(result)
                      /\ after.lastSave = Some(SaveArgs(s, result))
                      /\ outcome = "ok" => after.cacheFile = RecordOf(s, result)

\* the rescan started by a change of skipDirs has completed: its tree is
\* displayed and the cache record holds it with the new parameters
C7_Witness ==
    /\ ~Cancelled
    /\ settings = SSkip
    /\ scans = {}
    /\ lastSave # None
    /\ lastSave[1].kind = "settings"
    /\ lastSave[1].skipDirs = SSkip.skipDirs
    /\ projects # None
    /\ projects[1] # <<>>
    /\ cacheFile = FileJson(CacheData(projects[1], SSkip.projectsDir,
                                      SSkip.maxDepth, SSkip.skipDirs))

\* C8: If the cache load completes before the initial scan, returns a present
\* record and cancel has not been invoked, the cached tree is displayed at that
\* moment, and the session stays in the refreshing state until the initial
\* scan itself completes.
C8_CacheFirstThenRefreshingUntilScanDone ==
    \A s \in scans :
        (s.kind = "mount" /\ ~Cancelled) =>
            /\ (load.phase = "parsed" /\ Cached # None) =>
                    /\ AfterCacheLoad.projects = Cached
                    /\ AfterCacheLoad.isRefreshing
            /\ load.shown => isRefreshing

---------------------------------------------------------------------------
(* Properties: navigation *)

\* the containers the displayed list offers to drill into
Drillable ==
    {items[i].project[1] : i \in
        {j \in 1..Len(items) :
            /\ items[j].type = "project"
            /\ items[j].project # None
            /\ HasNested(items[j].project[1])}}

\* C9: The flatten cache never serves a result computed from a superseded
\* tree: in every state, also after the displayed tree was replaced (initial
\* scan completion over a cached tree, refresh, settings rescan) and also when
\* the same path was drilled into before, drilling into a node of the
\* displayed list shows the flatten of that node in the current tree.
C9_DrillShowsFlattenOfCurrentTree ==
    \A p \in Drillable :
        LET after == drillDown(NavState, p)
        IN  /\ Len(after.navStack) = Len(navStack) + 1
            /\ after.navStack[Len(after.navStack)].projects =
                    collectNestedGitProjects(p)

\* the navigation stack with the viewport saved in its top frame
WithSavedViewport ==
    [navStack EXCEPT ![Len(navStack)].savedScrollOffset = scrollOffset,
                     ![Len(navStack)].savedSelectedKey = selectedKey]

\* C10 (as stated): For every state, drilling down into a container followed
\* at once by back restores the navigation stack, the scroll offset and the
\* selection key to exactly the values they had before the drill-down.
C10_DrillThenBackRestoresAll ==
    \A p \in Drillable :
        LET down == drillDown(NavState, p)
            back == goBack(down)
        IN  Len(down.navStack) > Len(navStack) =>
                /\ back.navStack = navStack
                /\ back.scrollOffset = scrollOffset
                /\ back.selectedKey = selectedKey

\* C10 (amended): For every state, drilling down into a container followed at
\* once by back restores the scroll offset and the selection key to exactly
\* the values they had before the drill-down, and the navigation stack to the
\* frames it had, the top frame now holding that scroll offset and selection
\* key as its saved viewport.
C10_DrillThenBackRestoresViewport ==
    \A p \in Drillable :
        LET down == drillDown(NavState, p)
            back == goBack(down)
        IN  Len(down.navStack) > Len(navStack) =>
                /\ Len(down.navStack) = Len(navStack) + 1
                /\ back.navStack = WithSavedViewport
                /\ back.scrollOffset = scrollOffset
                /\ back.selectedKey = selectedKey

\* the user has drilled into a container from a scrolled list with a chosen
\* entry and has come back: the viewport is the one saved in the top frame
C10_Witness ==
    /\ phase = "mounted"
    /\ Len(navStack) = 1
    /\ navStack[1].savedSelectedKey # NullStr
    /\ navStack[1].savedScrollOffset > 0
    /\ selectedKey = navStack[1].savedSelectedKey
    /\ scrollOffset = navStack[1].savedScrollOffset
    /\ DOMAIN nestedCache # {}

---------------------------------------------------------------------------
(* Properties: the navigation stack *)

\* the state of the list with scroll offset so and selection key
AtViewport(so, key) ==
    [NavState EXCEPT !.scrollOffset = so, !.selectedKey = key]

\* the selection keys the displayed list offers, and no selection
KeysOffered == {NullStr} \cup {items[i].selectionKey : i \in 1..Len(items)}

\* C11: The navigation stack is never empty: back with a single frame leaves
\* the stack, the scroll offset and the selection unchanged, and in every
\* reachable state the bottom frame has no parentPath while every frame above
\* it has as parentPath the path of the node that was drilled into (a
\* container of the tree; drilling into p pushes a frame whose parentPath is
\* p.path and leaves the frames below their parentPath).
C11_StackNeverEmptyParentPaths ==
    /\ Len(navStack) >= 1
    /\ Len(navStack) = 1 =>
            \A so \in 0..VisibleRows, key \in KeysOffered :
                LET back == goBack(AtViewport(so, key))
                IN  /\ back.navStack = navStack
                    /\ back.scrollOffset = so
                    /\ back.selectedKey = key
    /\ navStack[1].parentPath = NullStr
    /\ \A i \in 2..Len(navStack) :
            /\ navStack[i].parentPath # NullStr
            /\ FindProject(Tree, navStack[i].parentPath) # None
            /\ HasNested(FindProject(Tree, navStack[i].parentPath)[1])
    /\ \A p \in Drillable :
            LET down == drillDown(NavState, p).navStack
            IN  /\ Len(down) >= Len(navStack)
                /\ \A i \in 1..Len(navStack) : down[i].parentPath = navStack[i].parentPath
                /\ \A i \in (Len(navStack) + 1)..Len(down) : down[i].parentPath = p.path

\* the user has drilled into the container alpha: a second frame is on the
\* stack
C11_Witness ==
    /\ phase = "mounted"
    /\ Len(navStack) = 2
    /\ navStack[2].parentPath = join(ExistingRoot, "alpha")
    /\ Drillable = {}

---------------------------------------------------------------------------
(* The cache module on its own: saveCache and loadCacheAsync called in any *)
(* order with any tree and any parameters.                                 *)

\* the trees handed to saveCache: scan results, and trees read from a record
CacheTrees ==
    LET scanned == LoadedTrees \cup {<<>>}
    IN  scanned \cup {CacheData(t, "", 0, "").projects : t \in scanned}

\* the scan parameters of a Settings object
Params(c) == [projectsDir |-> c.projectsDir, maxDepth |-> c.maxDepth, skipDirs |-> c.skipDirs]

\* the files the module can find: none, no JSON, a record of an earlier call
CacheFiles ==
    {FileMissing, FileCorrupt} \cup
    {FileJson(CacheData(t, c.projectsDir, c.maxDepth, c.skipDirs)) :
        t \in CacheTrees, c \in SettingsChoices}

CacheInit ==
    /\ phase = "constructed"
    /\ currentTab = 0
    /\ projects = None
    /\ isRefreshing = FALSE
    /\ settings \in SettingsChoices
    /\ signals = <<FALSE>>
    /\ hasShownResults = FALSE
    /\ load = IdleLoad
    /\ scans = {}
    /\ nScans = 0
    /\ cacheFile \in CacheFiles
    /\ lastSave = None
    /\ fs = FsEmpty
    /\ nestedCache = EmptyMap
    /\ navStack = <<RootLevel(<<>>)>>
    /\ selectedKey = NullStr
    /\ scrollOffset = 0
    /\ searchTerm = <<>>
    /\ recentEntries = <<>>
    /\ shortcutEntries = <<>>
    /\ shortcutsFile = <<>>
    /\ exitResult = None
    /\ confirmDeleteId = NullStr

\* the caller picks other parameters
ParamsChange ==
    /\ load.phase \in {"idle", "done"}
    /\ settings' \in SettingsChoices \ {settings}
    /\ UNCHANGED <<phase, currentTab, projects, isRefreshing, signals, hasShownResults,
                   load, scans, nScans, cacheFile, lastSave, navVars, fs, otherVars>>

\* saveCache(P, projectsDir, maxDepth, skipDirs) with no load in flight
SaveCall ==
    /\ load.phase \in {"idle", "done"}
    /\ \E P \in CacheTrees, outcome \in WriteOutcomes :
        /\ cacheFile' = saveCache(cacheFile, P, settings.projectsDir,
                                  settings.maxDepth, settings.skipDirs, outcome)
        /\ lastSave' = Some([projects |-> P, params |-> Params(settings),
                             outcome |-> outcome])
    /\ load' = IdleLoad
    /\ projects' = None
    /\ UNCHANGED <<phase, currentTab, isRefreshing, settings, signals, hasShownResults,
                   scans, nScans, navVars, fs, otherVars>>

\* loadCacheAsync(projectsDir, maxDepth, skipDirs) is called
LoadCall ==
    /\ load.phase \in {"idle", "done"}
    /\ load' = [phase |-> "access", config |-> settings, content |-> FileMissing,
                shown |-> FALSE]
    /\ projects' = None
    /\ UNCHANGED <<phase, currentTab, isRefreshing, settings, signals, hasShownResults,
                   scans, nScans, cacheFile, lastSave, navVars, fs, otherVars>>

\* loadCacheAsync returns: `projects` holds what it returned
LoadReturn ==
    /\ load.phase = "parsed"
    /\ load' = [load EXCEPT !.phase = "done"]
    /\ projects' = Cached
    /\ UNCHANGED <<phase, currentTab, isRefreshing, settings, signals, hasShownResults,
                   scans, nScans, cacheFile, lastSave, navVars, fs, otherVars>>

CacheNext ==
    \/ ParamsChange
    \/ SaveCall
    \/ LoadCall
    \/ CacheLoadAccess
    \/ CacheLoadRead
    \/ LoadReturn

CacheSpec == CacheInit /\ [][CacheNext]_vars

\* the value of property f of object p, none when p does not have it
Field(p, f) == IF f \in DOMAIN p THEN Some(p[f]) ELSE None

RECURSIVE DeepEqual(_, _)
\* deep equality of two project lists, a property that is undefined counting
\* as a property that is missing
DeepEqual(a, b) ==
    /\ Len(a) = Len(b)
    /\ \A i \in 1..Len(a) :
        /\ a[i].name = b[i].name
        /\ a[i].path = b[i].path
        /\ a[i].isGitRepo = b[i].isGitRepo
        /\ Field(a[i], "hasNestedProjects") = Field(b[i], "hasNestedProjects")
        /\ (NestedOf(a[i]) = None) = (NestedOf(b[i]) = None)
        /\ NestedOf(a[i]) # None => DeepEqual(NestedOf(a[i])[1], NestedOf(b[i])[1])

\* a load has returned that was called with the parameters of the last save,
\* after it and with no other save in between
LoadedAfterSave ==
    /\ lastSave # None
    /\ load.phase = "done"
    /\ Params(load.config) = lastSave[1].params

RecordRead == IF load.content.state = "json" THEN load.content.data ELSE None

\* C13: load(params) returns the stored projects only when a cache record
\* exists, parses, and its projectsDir, maxDepth and skipDirs are all exactly
\* equal to params; it returns absent, without raising an error, when the
\* file is missing, when the record is unparsable, or when any single one of
\* the three fields differs.
C13_LoadReturnsStoredOnlyOnExactMatch ==
    load.phase = "done" =>
        /\ projects # None =>
                /\ RecordRead # None
                /\ RecordRead[1].projectsDir = load.config.projectsDir
                /\ RecordRead[1].maxDepth = load.config.maxDepth
                /\ RecordRead[1].skipDirs = load.config.skipDirs
                /\ projects = Some(RecordRead[1].projects)
        /\ load.content.state \in {"missing", "corrupt"} => projects = None
        /\ (RecordRead # None /\ RecordRead[1].projectsDir # load.config.projectsDir)
                => projects = None
        /\ (RecordRead # None /\ RecordRead[1].maxDepth # load.config.maxDepth)
                => projects = None
        /\ (RecordRead # None /\ RecordRead[1].skipDirs # load.config.skipDirs)
                => projects = None
        /\ (RecordRead # None /\ Params(RecordRead[1]) = Params(load.config))
                => projects # None

\* a load has returned absent on a record of a non-empty tree that differs
\* from the parameters asked for in skipDirs only
C13_Witness ==
    /\ load.phase = "done"
    /\ RecordRead # None
    /\ RecordRead[1].projects # <<>>
    /\ RecordRead[1].projectsDir = load.config.projectsDir
    /\ RecordRead[1].maxDepth = load.config.maxDepth
    /\ RecordRead[1].skipDirs # load.config.skipDirs
    /\ projects = None

---------------------------------------------------------------------------
(* The list of the Projects tab for the shortcuts, recent entries, section *)
(* switches, levels and search terms a session can have                    *)

\* four repositories directly below the root
FsFlat == {<<"alpha">>, <<"beta">>, <<"delta">>, <<"gamma">>}

\* a repository inside a repository inside a repository, three levels deep
FsNested ==
    {<<"alpha">>, <<"alpha", "gamma">>, <<"alpha", "gamma", "delta">>,
     <<"beta", "gamma">>}

\* the trees of the list: those of a loaded session, four repositories side
\* by side, and repositories inside repositories found with maxDepth 3
ListTrees ==
    LoadedTrees \cup globAndBuild(S0, FALSE, FsFlat)
        \cup globAndBuild([S0 EXCEPT !.maxDepth = 3], FALSE, FsNested)

\* the settings file switching the Shortcuts and Recent sections on or off
ListSettings ==
    {[S0 EXCEPT !.showShortcuts = sc, !.showRecent = rc] : sc, rc \in BOOLEAN}

\* a cd command typed without quotes, and a command that is not a cd
CdUnquoted(path) == [verb |-> "cd", path |-> path, quoted |-> FALSE]
ShellCommand == [verb |-> "other", path |-> "", quoted |-> FALSE]

BetaPath == join(ExistingRoot, "beta")

\* shortcuts for beta: the command addShortcut generates, that command
\* followed by another step, and a single cd typed without quotes
ScBeta ==
    [id |-> "2", name |-> "beta", trigger |-> "b", caseSensitive |-> FALSE,
     command |-> <<CdCommand(BetaPath)>>]
ScBetaSteps ==
    [id |-> "3", name |-> "beta", trigger |-> "c", caseSensitive |-> FALSE,
     command |-> <<CdCommand(BetaPath), ShellCommand>>]
ScBetaBare ==
    [id |-> "4", name |-> "beta", trigger |-> "d", caseSensitive |-> FALSE,
     command |-> <<CdUnquoted(BetaPath)>>]

ShortcutLists ==
    {<<>>, InitialShortcuts, <<ScBeta>>, <<ScBetaSteps>>, <<ScBetaBare>>,
     InitialShortcuts \o <<ScBetaSteps>>}

RecentLists ==
    {<<>>, InitialRecent,
     InitialRecent \o <<[path |-> join(join(ExistingRoot, "alpha"), "gamma"),
                         displayName |-> "gamma"]>>}

\* what the user has typed into the search
ListTerms == {<<>>, <<"g", "a">>, <<"G">>, <<"z">>}

\* the list state of a session showing tree t: at the root, or after Right
\* on the container alpha when deep, with `term` typed there
ListState(t, deep, term) ==
    LET root == [navStack |-> <<RootLevel(t)>>, scrollOffset |-> 0,
                 selectedKey |-> NullStr, searchTerm |-> <<>>,
                 nestedCache |-> EmptyMap]
        alpha == FindProject(t, join(ExistingRoot, "alpha"))
        level == IF deep /\ alpha # None THEN drillDown(root, alpha[1]) ELSE root
    IN  searchEffect(<<>>, [level EXCEPT !.searchTerm = term])

ListInit ==
    /\ phase = "mounted"
    /\ currentTab = 0
    /\ \E t \in ListTrees : projects = Some(t)
    /\ isRefreshing = FALSE
    /\ settings \in ListSettings
    /\ signals = <<FALSE, FALSE>>
    /\ hasShownResults = TRUE
    /\ load = [phase |-> "done", config |-> settings, content |-> FileMissing,
               shown |-> FALSE]
    /\ scans = {}
    /\ nScans = 1
    /\ cacheFile = saveCache(FileMissing, Tree, settings.projectsDir,
                             settings.maxDepth, settings.skipDirs, "ok")
    /\ lastSave = Some(SaveArgs([id |-> 1, kind |-> "mount", config |-> settings], Tree))
    /\ fs = FsLarge
    /\ recentEntries \in RecentLists
    /\ shortcutEntries \in ShortcutLists
    /\ shortcutsFile = shortcutEntries
    /\ exitResult = None
    /\ confirmDeleteId = NullStr
    /\ \E deep \in BOOLEAN, term \in ListTerms :
            LET nav == ListState(Tree, deep, term)
            IN  /\ navStack = nav.navStack
                /\ scrollOffset = nav.scrollOffset
                /\ selectedKey = nav.selectedKey
                /\ searchTerm = nav.searchTerm
                /\ nestedCache = nav.nestedCache

ListNext ==
    \/ KeyChar
    \/ KeyBackspace
    \/ KeyRight
    \/ KeyLeft

\* The list under every combination of its inputs.
ListSpec == ListInit /\ [][ListNext]_vars

---------------------------------------------------------------------------
(* Properties: the list *)

\* unfilteredItems of the current render
unfilteredItems ==
    UnfilteredItems(navStack, settings, shortcutEntries, recentEntries, searchTerm, Tree)

\* the same letter, in either case
SameLetter(a, b) ==
    \/ a = b
    \/ \E k \in 1..Len(Letters) : {a, b} = {Letters[k], Capitals[k]}

\* term occurs in label at some offset, letters compared without case
ContainsIgnoringCase(label, term) ==
    \E off \in 0..(Len(label) - Len(term)) :
        \A k \in 1..Len(term) : SameLetter(label[off + k], term[k])

Entries(list) == SelectSeq(list, LAMBDA it : it.type = "project")

Headers(list) == SelectSeq(list, LAMBDA it : it.type = "header")

\* the entries of the section that header h of list opens: those after h and
\* before the next header
SectionEntries(list, h) ==
    {j \in (h + 1)..Len(list) :
        /\ list[j].type = "project"
        /\ \A k \in (h + 1)..j : list[k].type # "header"}

\* the headers of the unfiltered list that have an entry matching the term
HeadersWithMatch ==
    LET U == unfilteredItems
        idx == SelectSeq([i \in 1..Len(U) |-> i],
                    LAMBDA h : /\ U[h].type = "header"
                               /\ \E j \in SectionEntries(U, h) :
                                    ContainsIgnoringCase(Chars(U[j].label), searchTerm))
    IN  [k \in 1..Len(idx) |-> U[idx[k]]]

\* C14: With a non-empty search term the list keeps exactly the entries whose
\* label contains the term as a case-insensitive substring, and a header is
\* kept if and only if at least one entry of its own section is kept; a kept
\* header stands directly before the first kept entry of its section.
C14_FilterKeepsMatchesAndTheirHeaders ==
    searchTerm # <<>> =>
        /\ Entries(items) =
                SelectSeq(Entries(unfilteredItems),
                    LAMBDA it : ContainsIgnoringCase(Chars(it.label), searchTerm))
        /\ Headers(items) = HeadersWithMatch
        /\ \A j \in 1..Len(items) :
                items[j].type = "header" =>
                    /\ j < Len(items)
                    /\ items[j + 1].type = "project"

\* "ga" typed over alpha, beta, delta, gamma under one header: the list is
\* that header followed by gamma only
C14_Witness ==
    /\ searchTerm = <<"g", "a">>
    /\ Len(Entries(unfilteredItems)) = 4
    /\ Len(items) = 2
    /\ items[1] = HeaderItem("All Projects")
    /\ items[2].label = "gamma"

RECURSIVE IsSubsequence(_, _)
\* a is b with some elements left out, the others in the order of b
IsSubsequence(a, b) ==
    IF a = <<>> THEN TRUE
    ELSE IF b = <<>> THEN FALSE
    ELSE IF Head(a) = Head(b) THEN IsSubsequence(Tail(a), Tail(b))
    ELSE IsSubsequence(a, Tail(b))

\* C15: Filtering by the empty string returns the unfiltered list unchanged,
\* and for every search term the surviving items keep the relative order they
\* have in the unfiltered list.
C15_EmptyTermIsIdentityAndOrderKept ==
    /\ searchTerm = <<>> => items = unfilteredItems
    /\ IsSubsequence(items, unfilteredItems)

\* "e" typed over alpha, beta, delta, gamma: beta and delta survive, in that
\* order, and two entries are left out
C15_Witness ==
    /\ searchTerm = <<"e">>
    /\ Len(Entries(unfilteredItems)) = 4
    /\ Len(Entries(items)) = 2
    /\ items[2].label = "beta"
    /\ items[3].label = "delta"

\* the positions of Back items in the displayed list
BackPositions == {i \in 1..Len(items) : items[i].type = "back"}

\* C16: The list contains a Back item if and only if the navigation stack is
\* not at the root level; when present it is the last item of the list, for
\* every search term including one that matches no entry.
C16_BackIffNotRootAndLast ==
    /\ (BackPositions # {}) = (Len(navStack) > 1)
    /\ BackPositions \subseteq {Len(items)}

\* in a drilled level a term that matches no entry is typed: Back is all that
\* is left of the list
C16_Witness ==
    /\ Len(navStack) = 2
    /\ searchTerm = <<"z">>
    /\ items = <<BackItem>>

\* the section an item of the unfiltered list belongs to: 1 Shortcuts,
\* 2 Recent, 3 current level, 4 Back
SectionRank(it) ==
    IF it.type = "back" THEN 4
    ELSE IF it.type = "header"
    THEN (IF it.label = "Shortcuts" THEN 1 ELSE IF it.label = "Recent" THEN 2 ELSE 3)
    ELSE IF it.shortcutId # "" THEN 1
    ELSE IF it.selectionKey # it.path THEN 2
    ELSE 3

\* the sections stand in the order Shortcuts, Recent, current level, Back,
\* each with one header in front of its entries, the Shortcuts section
\* listing every shortcut in the stored order and the current-level section
\* always there
SectionsInOrder ==
    LET U == unfilteredItems
    IN  /\ \A i, j \in 1..Len(U) : i < j => SectionRank(U[i]) <= SectionRank(U[j])
        /\ \A i, j \in 1..Len(U) :
                (U[i].type = "header" /\ U[j].type = "header" /\ i # j)
                    => SectionRank(U[i]) # SectionRank(U[j])
        /\ \A j \in 1..Len(U) :
                U[j].type = "project" =>
                    \E h \in 1..(j - 1) :
                        U[h].type = "header" /\ SectionRank(U[h]) = SectionRank(U[j])
        /\ \E h \in 1..Len(U) : U[h].type = "header" /\ SectionRank(U[h]) = 3
        /\ LET sc == SelectSeq(U, LAMBDA it : it.type = "project" /\ SectionRank(it) = 1)
           IN  sc # <<>> =>
                    [k \in 1..Len(sc) |-> sc[k].shortcutId] =
                    [k \in 1..Len(shortcutEntries) |-> shortcutEntries[k].id]

ShortcutsSectionPresent ==
    \E i \in 1..Len(unfilteredItems) : unfilteredItems[i] = HeaderItem("Shortcuts")

\* C17 (as stated): In the unfiltered list the sections appear in the order
\* Shortcuts, Recent, current level, Back, and the Shortcuts section is
\* present if and only if there is at least one shortcut, the search term is
\* empty and the feature is enabled.
C17_SectionsOrderedShortcutsIffEnabled ==
    /\ SectionsInOrder
    /\ ShortcutsSectionPresent =
            (Len(shortcutEntries) > 0 /\ searchTerm = <<>> /\ settings.showShortcuts)

\* C17 (amended): In the unfiltered list the sections appear in the order
\* Shortcuts, Recent, current level, Back, and the Shortcuts section is
\* present if and only if the list is at the root level, there is at least
\* one shortcut, the search term is empty and the feature is enabled.
C17_SectionsOrderedShortcutsIffEnabledAtRoot ==
    /\ SectionsInOrder
    /\ ShortcutsSectionPresent =
            (/\ Len(navStack) = 1
             /\ Len(shortcutEntries) > 0
             /\ searchTerm = <<>>
             /\ settings.showShortcuts)

\* the root list with the Shortcuts section (two shortcuts), the Recent
\* section and the current level
C17_Witness ==
    /\ Len(navStack) = 1
    /\ Len(shortcutEntries) = 2
    /\ Len(Headers(unfilteredItems)) = 3
    /\ unfilteredItems[1] = HeaderItem("Shortcuts")
    /\ unfilteredItems[4] = HeaderItem("Recent")

\* the Recent section is built: root level, feature on, no search term
RecentSectionBuilt ==
    /\ Len(navStack) = 1
    /\ settings.showRecent
    /\ searchTerm = <<>>

\* recent entry e is listed in the Recent section
ListedInRecent(e) ==
    \E i \in 1..Len(unfilteredItems) :
        /\ unfilteredItems[i].type = "project"
        /\ SectionRank(unfilteredItems[i]) = 2
        /\ unfilteredItems[i].path = e.path

\* the stored command of shortcut sc is the single instruction cd to path
SingleCdTo(sc, path) ==
    /\ Len(sc.command) = 1
    /\ sc.command[1].verb = "cd"
    /\ sc.command[1].path = path

\* C18: A recent entry is left out of the Recent section if and only if some
\* shortcut is an exact match for its path, i.e. its stored command is the
\* single instruction that changes directory to that path; a recent entry
\* whose path only occurs in a multi-step shortcut is still listed in Recent.
C18_RecentHiddenIffSingleCdShortcut ==
    RecentSectionBuilt =>
        \A k \in 1..Len(recentEntries) :
            ~ListedInRecent(recentEntries[k]) =
                (\E s \in 1..Len(shortcutEntries) :
                    SingleCdTo(shortcutEntries[s], recentEntries[k].path))

\* what holds of the code: the entry is left out exactly when the single cd
\* instruction has its path in double quotes
RecentHiddenIffQuotedSingleCd ==
    RecentSectionBuilt =>
        \A k \in 1..Len(recentEntries) :
            ~ListedInRecent(recentEntries[k]) =
                (\E s \in 1..Len(shortcutEntries) :
                    /\ SingleCdTo(shortcutEntries[s], recentEntries[k].path)
                    /\ shortcutEntries[s].command[1].quoted)

\* C19: At the root level the current-level section skips every entry whose
\* path already appears in the Shortcuts or Recent section, so that no path
\* is listed both in one of those sections and in the current-level section.
C19_LevelSkipsPathsOfSections ==
    Len(navStack) = 1 =>
        \A i, j \in 1..Len(unfilteredItems) :
            (/\ unfilteredItems[i].type = "project"
             /\ unfilteredItems[j].type = "project"
             /\ SectionRank(unfilteredItems[i]) \in {1, 2}
             /\ SectionRank(unfilteredItems[j]) = 3)
                => unfilteredItems[i].path # unfilteredItems[j].path

\* the items of a list that can be selected
Selectable(list) == {i \in 1..Len(list) : list[i].type # "header"}

\* no two selectable items of list share a key, and the map built with the
\* list sends the key of each to its index
KeysUniqueAndMapped(list) ==
    /\ \A i, j \in Selectable(list) :
            i # j => list[i].selectionKey # list[j].selectionKey
    /\ \A i \in Selectable(list) :
            /\ list[i].selectionKey # NullStr
            /\ keyToIndex(list, list[i].selectionKey) = i - 1

\* C20: In every list that is built, no two non-header items have the same
\* selectionKey (an entry in the Shortcuts or Recent section and the main-list
\* entry for the same path have different keys), and the key-to-index map
\* sends each item's key to that item's index.
C20_SelectionKeysUniqueAndMapped ==
    /\ KeysUniqueAndMapped(unfilteredItems)
    /\ KeysUniqueAndMapped(items)

\* the root list shows beta in the Shortcuts section, in the Recent section
\* and in the main list
C20_Witness ==
    /\ Len(navStack) = 1
    /\ \E i, j, k \in 1..Len(items) :
        /\ SectionRank(items[i]) = 1 /\ items[i].path = BetaPath
        /\ SectionRank(items[j]) = 2 /\ items[j].path = BetaPath
        /\ SectionRank(items[k]) = 3 /\ items[k].path = BetaPath
        /\ items[k].type = "project"

\* the keys resolve is asked about: no key, the key of the render, every key
\* the unfiltered list offers, and a key no list offers
ResolveKeys ==
    {NullStr, selectedKey, "no-such-key"} \cup
    {unfilteredItems[i].selectionKey : i \in Selectable(unfilteredItems)}

\* key is the key of a selectable item of list
KeyPresent(list, key) ==
    key # NullStr /\ \E i \in Selectable(list) : list[i].selectionKey = key

\* index is what the contract of resolve gives for key in list
ResolvesTo(list, key, index) ==
    IF KeyPresent(list, key)
    THEN /\ index + 1 \in Selectable(list)
         /\ list[index + 1].selectionKey = key
    ELSE IF Selectable(list) # {}
    THEN /\ index + 1 \in Selectable(list)
         /\ \A i \in Selectable(list) : index + 1 <= i
    ELSE index = 0

\* C21: resolve(key, list) returns the index of the item with that key when
\* the key is present in the list, otherwise the index of the first
\* non-header item, otherwise 0 (no selectable item); a key that is none
\* resolves like an absent key.
C21_ResolveKeyOrFirstSelectableOrZero ==
    /\ \A key \in ResolveKeys :
            /\ ResolvesTo(items, key, selectedIndex(items, key))
            /\ ResolvesTo(unfilteredItems, key, selectedIndex(unfilteredItems, key))
    /\ selectedIndex(items, NullStr) = selectedIndex(items, "no-such-key")

\* the search term has removed an entry from the displayed list, whose first
\* row is a header: the key of the removed entry resolves to the row after
\* the header, the key of a later entry to its own row
C21_Witness ==
    /\ searchTerm # <<>>
    /\ items # <<>>
    /\ items[1].type = "header"
    /\ \E key \in ResolveKeys :
            /\ KeyPresent(unfilteredItems, key)
            /\ ~KeyPresent(items, key)
            /\ selectedIndex(items, key) = 1
    /\ \E key \in ResolveKeys :
            KeyPresent(items, key) /\ selectedIndex(items, key) > 1

---------------------------------------------------------------------------
(* The scanner on its own: scanProjectsAsync called without a signal, with *)
(* any parameters, on any disk.                                            *)

\* the deepest maxDepth the caller passes
MaxScanDepth == 3

\* the projects directory is itself a repository
FsRootRepo == {<<>>, <<"alpha">>, <<"beta", "gamma">>}
\* a repository below a directory whose name begins with a period
FsHidden == {<<".cfg", "beta">>, <<"alpha">>, <<"gamma", "delta">>}
\* a single repository four levels deep
FsDeep == {<<"alpha", "beta", "gamma", "delta">>}
\* names that begin with capitals next to names that do not
FsCase == {<<"alpha">>, <<"Alpha">>, <<"Beta", "delta">>, <<"Beta", "Gamma">>}

ScanDisks ==
    {FsEmpty, FsSmall, FsLarge, FsFlat, FsNested, FsRootRepo, FsHidden, FsDeep, FsCase}

ScanSettings ==
    {MkSettings(dir, depth, skip, "#FFD700") :
        dir \in {ExistingRoot, MissingRoot},
        depth \in 0..MaxScanDepth,
        skip \in {"", "gamma", "g*", "gamma, ,delta"}}

\* `projects` holds what the last call resolved with, `isRefreshing` is true
\* while a call is in flight
ScanInit ==
    /\ phase = "constructed"
    /\ currentTab = 0
    /\ projects = None
    /\ isRefreshing = FALSE
    /\ settings \in ScanSettings
    /\ signals = <<FALSE>>
    /\ hasShownResults = FALSE
    /\ load = IdleLoad
    /\ scans = {}
    /\ nScans = 0
    /\ cacheFile = FileMissing
    /\ lastSave = None
    /\ fs \in ScanDisks
    /\ nestedCache = EmptyMap
    /\ navStack = <<RootLevel(<<>>)>>
    /\ selectedKey = NullStr
    /\ scrollOffset = 0
    /\ searchTerm = <<>>
    /\ recentEntries = <<>>
    /\ shortcutEntries = <<>>
    /\ shortcutsFile = <<>>
    /\ exitResult = None
    /\ confirmDeleteId = NullStr

\* the caller picks other parameters
ScanParamsChange ==
    /\ ~isRefreshing
    /\ settings' \in ScanSettings \ {settings}
    /\ projects' = None
    /\ UNCHANGED <<phase, currentTab, isRefreshing, signals, hasShownResults, load,
                   scans, nScans, cacheFile, lastSave, navVars, fs, otherVars>>

\* repositories appear on the disk or leave it
ScanDiskChange ==
    /\ ~isRefreshing
    /\ fs' \in ScanDisks \ {fs}
    /\ projects' = None
    /\ UNCHANGED <<phase, currentTab, isRefreshing, settings, signals, hasShownResults,
                   load, scans, nScans, cacheFile, lastSave, navVars, otherVars>>

\* scanProjectsAsync(settings) is called
ScanCall ==
    /\ ~isRefreshing
    /\ isRefreshing' = TRUE
    /\ projects' = None
    /\ UNCHANGED <<phase, currentTab, settings, signals, hasShownResults, load,
                   scans, nScans, cacheFile, lastSave, navVars, fs, otherVars>>

\* the promise resolves; fast-glob returns the entries in any order
ScanReturn ==
    /\ isRefreshing
    /\ \E t \in globAndBuild(settings, FALSE, fs) : projects' = Some(t)
    /\ isRefreshing' = FALSE
    /\ UNCHANGED <<phase, currentTab, settings, signals, hasShownResults, load,
                   scans, nScans, cacheFile, lastSave, navVars, fs, otherVars>>

ScanNext ==
    \/ ScanParamsChange
    \/ ScanDiskChange
    \/ ScanCall
    \/ ScanReturn

ScanSpec == ScanInit /\ [][ScanNext]_vars

---------------------------------------------------------------------------
(* Properties: the scanner *)

\* C22: For every rootDir that does not exist, scan returns an empty
\* sequence and raises no error.
C22_MissingRootScansEmpty ==
    ~existsSync(settings.projectsDir) =>
        /\ globAndBuild(settings, FALSE, fs) = {<<>>}
        /\ projects \in {None, Some(<<>>)}

\* a scan of the missing directory has returned, with repositories on the disk
C22_Witness ==
    /\ ~existsSync(settings.projectsDir)
    /\ fs = FsNested
    /\ ~isRefreshing
    /\ projects = Some(<<>>)

RECURSIVE NodesOf(_)
\* the nodes of a list of projects and every node below them
NodesOf(list) ==
    UNION {{list[i]} \cup
           (IF NestedOf(list[i]) = None THEN {} ELSE NodesOf(NestedOf(list[i])[1])) :
           i \in 1..Len(list)}

\* the nodes below node p
Descendants(p) == IF NestedOf(p) = None THEN {} ELSE NodesOf(NestedOf(p)[1])

\* the repositories the glob hands to buildProjectTree, other than the
\* projects directory itself
FoundBelowRoot ==
    GlobGitDirs(settings.maxDepth, parseSkipPatterns(settings.skipDirs), fs) \ {<<>>}

RECURSIVE PathBelow(_, _)
\* the path of the directory segs below dir
PathBelow(dir, segs) ==
    IF segs = <<>> THEN dir ELSE PathBelow(join(dir, Head(segs)), Tail(segs))

\* the path of the directory segs below the projects directory
PathOf(segs) == PathBelow(settings.projectsDir, segs)

\* a is a proper prefix of b
ProperPrefix(a, b) == Len(a) < Len(b) /\ SubSeq(b, 1, Len(a)) = a

\* tree t marks exactly the found repositories
MarksExactlyFound(t) ==
    LET nodes == NodesOf(t)
        NodeAt(segs) == {n \in nodes : n.path = PathOf(segs)}
    IN  /\ \A n \in nodes :
                n.isGitRepo <=> \E segs \in FoundBelowRoot : n.path = PathOf(segs)
        /\ \A segs \in FoundBelowRoot : Cardinality(NodeAt(segs)) = 1
        /\ \A p, q \in FoundBelowRoot :
                ProperPrefix(p, q) =>
                    \E n \in NodeAt(p) :
                        /\ n.isGitRepo
                        /\ \E m \in Descendants(n) : m.path = PathOf(q) /\ m.isGitRepo
        /\ \A q \in FoundBelowRoot : \A k \in 1..(Len(q) - 1) :
                SubSeq(q, 1, k) \notin FoundBelowRoot =>
                    \E n \in NodeAt(SubSeq(q, 1, k)) :
                        /\ ~n.isGitRepo
                        /\ \E m \in Descendants(n) : m.path = PathOf(q)

\* C23: For every set of found repositories and every order in which they
\* are processed, a tree node has isRepo = true if and only if its path is a
\* found repository; a found repository that contains other found
\* repositories is both isRepo = true and the ancestor of their nodes, and
\* an intermediate directory that holds no marker is isRepo = false.
C23_IsRepoIffFoundInEveryOrder ==
    existsSync(settings.projectsDir) =>
        /\ \A o \in Orderings(GlobGitDirs(settings.maxDepth,
                                parseSkipPatterns(settings.skipDirs), fs)) :
                MarksExactlyFound(buildProjectTree(o, settings.projectsDir))
        /\ projects # None => MarksExactlyFound(projects[1])

\* a scan has returned a tree in which alpha is a repository that holds the
\* repository gamma, which holds the repository delta, and beta is a plain
\* directory above a repository
C23_Witness ==
    /\ fs = FsNested
    /\ projects # None
    /\ \E a, b \in NodesOf(projects[1]) :
        /\ a.path = PathOf(<<"alpha">>) /\ a.isGitRepo
        /\ \E g \in Descendants(a) :
            /\ g.path = PathOf(<<"alpha", "gamma">>) /\ g.isGitRepo
            /\ \E d \in Descendants(g) :
                d.path = PathOf(<<"alpha", "gamma", "delta">>) /\ d.isGitRepo
        /\ b.path = PathOf(<<"beta">>) /\ ~b.isGitRepo
        /\ Descendants(b) # {}

\* the directories of the disks of the model: every repository and every
\* directory above one, as segments below the projects directory
ScanDirs ==
    UNION {{SubSeq(p, 1, k) : k \in 0..Len(p)} : p \in UNION ScanDisks}

\* the directory names a skip list of the model stands for
SkippedNames(skipDirs) ==
    LET names == UNION {{p[i] : i \in 1..Len(p)} : p \in ScanDirs}
    IN  CASE skipDirs = "" -> {}
          [] skipDirs = "gamma" -> {"gamma"}
          [] skipDirs = "g*" -> {n \in names : Head(Chars(n)) = "g"}
          [] skipDirs = "gamma, ,delta" -> {"gamma", "delta"}

\* tree t holds the directory segs as a repository
FoundByScan(t, segs) ==
    \E n \in NodesOf(t) : n.path = PathOf(segs) /\ n.isGitRepo

\* the directory segs is marked, between 1 and maxDepth levels below the
\* projects directory, and none of its segments is skipped
MarkedWithinDepthNotSkipped(segs) ==
    /\ segs \in fs
    /\ 1 <= Len(segs) /\ Len(segs) <= settings.maxDepth
    /\ \A i \in 1..Len(segs) : segs[i] \notin SkippedNames(settings.skipDirs)

\* C24: scan finds a repository directory if and only if its marker exists,
\* the directory lies between 1 and maxDepth directory levels below rootDir
\* (the marker directory itself does not count against the depth), and no
\* segment of its path below rootDir matches a skip pattern.
C24_FoundIffMarkedWithinDepthNotSkipped ==
    existsSync(settings.projectsDir) =>
        \A t \in globAndBuild(settings, FALSE, fs), segs \in ScanDirs :
            FoundByScan(t, segs) <=> MarkedWithinDepthNotSkipped(segs)

\* the same with one more condition: no directory on the path has a name
\* that begins with a period
FoundIffMarkedWithinDepthNotSkippedNotHidden ==
    existsSync(settings.projectsDir) =>
        \A t \in globAndBuild(settings, FALSE, fs), segs \in ScanDirs :
            FoundByScan(t, segs) <=>
                /\ MarkedWithinDepthNotSkipped(segs)
                /\ \A i \in 1..Len(segs) : Head(Chars(segs[i])) # "."

\* the sequences of directory names that lead from a directory of the model
\* down to a directory below it
RelPaths ==
    UNION {{SubSeq(p, j, k) : j \in 1..Len(p), k \in 1..Len(p)} : p \in ScanDirs}
        \ {<<>>}

RECURSIVE SlashJoin(_)
\* the names joined with '/'
SlashJoin(segs) ==
    IF Len(segs) = 1 THEN segs[1] ELSE segs[1] \o "/" \o SlashJoin(Tail(segs))

\* the names on the path from the child of node n down to its descendant d
RelOf(n, d) == CHOOSE rel \in RelPaths : PathBelow(n.path, rel) = d.path

\* a is visited before b by a depth-first walk that visits a directory
\* before what it holds and the children of a directory alphabetically
VisitedBefore(a, b) ==
    \/ ProperPrefix(a, b)
    \/ \E k \in 1..Min(Len(a), Len(b)) :
            /\ SubSeq(a, 1, k - 1) = SubSeq(b, 1, k - 1)
            /\ localeCompare(a[k], b[k]) < 0

\* flat is the flatten of node n
IsFlattenOf(flat, n) ==
    LET repos == {d \in Descendants(n) : d.isGitRepo}
    IN  /\ {flat[i].path : i \in 1..Len(flat)} = {d.path : d \in repos}
        /\ \A i, j \in 1..Len(flat) : i # j => flat[i].path # flat[j].path
        /\ \A i \in 1..Len(flat) : flat[i].path # n.path
        /\ \A i \in 1..Len(flat) : \E d \in repos :
                /\ d.path = flat[i].path
                /\ flat[i].name = SlashJoin(RelOf(n, d))
        /\ \A i, j \in 1..Len(flat) : \A d, e \in repos :
                (i < j /\ d.path = flat[i].path /\ e.path = flat[j].path)
                    => VisitedBefore(RelOf(n, d), RelOf(n, e))

\* C25: For every node of a tree produced by scan, flatten(node) returns
\* exactly the isRepo = true proper descendants of node (never node itself,
\* never a non-repo container), each exactly once, in depth-first order with
\* children visited alphabetically, each with displayName equal to the
\* '/'-joined names on the path from node's child down to that descendant
\* (e.g. flatten(beta) = [gamma]).
C25_FlattenIsRepoDescendantsInOrder ==
    projects # None =>
        \A n \in NodesOf(projects[1]) :
            IsFlattenOf(collectNestedGitProjects(n), n)

\* in the scanned tree alpha holds the repository gamma, which holds the
\* repository delta, and the plain directory beta holds the repository gamma:
\* flatten(alpha) is gamma, gamma/delta and flatten(beta) is gamma
C25_Witness ==
    /\ fs = FsNested
    /\ projects # None
    /\ \E a, b \in NodesOf(projects[1]) :
        /\ a.path = PathOf(<<"alpha">>)
        /\ Len(collectNestedGitProjects(a)) = 2
        /\ [i \in 1..2 |-> collectNestedGitProjects(a)[i].name] =
                <<"gamma", "gamma/delta">>
        /\ b.path = PathOf(<<"beta">>) /\ ~b.isGitRepo
        /\ Len(collectNestedGitProjects(b)) = 1
        /\ collectNestedGitProjects(b)[1].name = "gamma"
        /\ collectNestedGitProjects(b)[1].path = PathOf(<<"beta", "gamma">>)

---------------------------------------------------------------------------
(* Deleting a shortcut from the project list: Ctrl+D and the confirmation  *)

\* the ids of the shortcuts of the model
ShortcutIds == {"1", "2", "3", "4"}

\* key.startsWith("sc-"): the paths of the model begin with "/" and the keys
\* of the Recent section with "recent-"
StartsWithSc(key) == key \in {"sc-" \o id : id \in ShortcutIds}

\* handleDeleteShortcut with items[selectedIndex] = cur: the confirmDeleteId
\* after it
deleteTarget(cur, pending) ==
    IF cur = None \/ cur[1].type # "project" THEN pending
    ELSE IF ~StartsWithSc(cur[1].selectionKey) \/ cur[1].shortcutId = "" THEN pending
    ELSE cur[1].shortcutId

handleDeleteShortcut == deleteTarget(currentItem, confirmDeleteId)

\* removeShortcut(id): the file after it
removeShortcut(file, id) == SelectSeq(file, LAMBDA s : s.id # id)

\* confirmDelete, "select next item in list": the key it selects in list
\* when key is selected
keyAfterDelete(list, key) ==
    LET sel == selectableIndices(list)
        pos == indexOf(sel, selectedIndex(list, key))
        nextPos == IF pos + 1 < Len(sel) THEN pos + 1 ELSE pos - 1
    IN  IF nextPos >= 0 /\ nextPos < Len(sel) THEN KeyAt(list, sel[nextPos + 1])
        ELSE NullStr

\* confirmDelete: what it leaves in the four states it writes
confirmDelete ==
    [shortcutsFile |-> removeShortcut(shortcutsFile, confirmDeleteId),
     shortcutEntries |-> SelectSeq(shortcutEntries, LAMBDA s : s.id # confirmDeleteId),
     confirmDeleteId |-> NullStr,
     selectedKey |-> keyAfterDelete(items, selectedKey)]

\* cancelDelete
cancelDelete ==
    [shortcutsFile |-> shortcutsFile, shortcutEntries |-> shortcutEntries,
     confirmDeleteId |-> NullStr, selectedKey |-> selectedKey]

\* the key events the handler can be called with: input is the character of
\* the key ("" for Escape, Return, Tab and the arrows), ctrl the modifier
KeyEvents ==
    {[input |-> i, ctrl |-> c] : i \in {"y", "Y", "n", "d", ""}, c \in BOOLEAN}

\* a confirmation mode in which every key confirms
confirmModeAnyKey(k) == confirmDelete

\* the handler while a confirmation is pending
confirmModeInput(k) ==
    IF k.input = "y" \/ k.input = "Y" THEN confirmDelete ELSE cancelDelete

\* Ctrl+D
KeyCtrlD ==
    /\ OnProjectsTab
    /\ confirmDeleteId' = handleDeleteShortcut
    /\ UNCHANGED <<phase, currentTab, coordVars, hasShownResults, lastSave, navVars,
                   recentEntries, shortcutEntries, fs, shortcutsFile, exitResult>>

\* any key while a confirmation is pending
KeyWhileConfirming ==
    /\ phase = "mounted"
    /\ currentTab = 0
    /\ confirmDeleteId # NullStr
    /\ \E k \in KeyEvents :
        LET after == confirmModeInput(k)
        IN  /\ shortcutsFile' = after.shortcutsFile
            /\ shortcutEntries' = after.shortcutEntries
            /\ confirmDeleteId' = after.confirmDeleteId
            /\ selectedKey' = after.selectedKey
    /\ UNCHANGED <<phase, currentTab, coordVars, hasShownResults, lastSave, navStack,
                   scrollOffset, searchTerm, nestedCache, recentEntries, fs,
                   exitResult>>

\* a loaded tree with no, one or two shortcuts and no or one recent entry
DeleteInit ==
    /\ \E t \in LoadedTrees : Loaded(t) /\ fs \in {FsSmall, FsLarge}
    /\ recentEntries \in {<<>>, InitialRecent}
    /\ shortcutEntries \in {<<>>, InitialShortcuts, InitialShortcuts \o <<ScBeta>>}
    /\ shortcutsFile = shortcutEntries

DeleteNext ==
    \/ KeyUp
    \/ KeyDown
    \/ KeyRight
    \/ KeyLeft
    \/ KeyEnter
    \/ KeyCtrlD
    \/ KeyWhileConfirming
    \/ CtrlC

\* The project list with its delete confirmation.
DeleteSpec == DeleteInit /\ [][DeleteNext]_vars

---------------------------------------------------------------------------
(* Properties: deleting a shortcut *)

\* list without the shortcut id
WithoutShortcut(list, id) == SelectSeq(list, LAMBDA s : s.id # id)

\* the selected row is an entry of the Shortcuts section
OnShortcutsEntry == currentItem # None /\ SectionRank(currentItem[1]) = 1

\* what holds in every state: Ctrl+D opens a confirmation exactly on an entry
\* of the Shortcuts section, and a pending confirmation is for a shortcut of
\* the list, is ended by every key, deletes on y or Y only, and keeps the
\* other keys of the list from acting
DeleteKeysInState ==
    /\ OnProjectsTab =>
        IF OnShortcutsEntry
        THEN /\ handleDeleteShortcut = currentItem[1].shortcutId
             /\ \E i \in 1..Len(shortcutEntries) :
                    shortcutEntries[i].id = handleDeleteShortcut
        ELSE handleDeleteShortcut = NullStr
    /\ (phase = "mounted" /\ confirmDeleteId # NullStr) =>
        /\ \E i \in 1..Len(shortcutEntries) : shortcutEntries[i].id = confirmDeleteId
        /\ shortcutsFile = shortcutEntries
        /\ \A k \in KeyEvents :
            LET after == confirmModeInput(k)
            IN  /\ after.confirmDeleteId = NullStr
                /\ IF k.input \in {"y", "Y"}
                   THEN /\ after.shortcutEntries =
                                WithoutShortcut(shortcutEntries, confirmDeleteId)
                        /\ after.shortcutsFile =
                                WithoutShortcut(shortcutsFile, confirmDeleteId)
                        /\ Len(after.shortcutEntries) = Len(shortcutEntries) - 1
                   ELSE /\ after.shortcutEntries = shortcutEntries
                        /\ after.shortcutsFile = shortcutsFile
                        /\ after.selectedKey = selectedKey
        /\ ~ENABLED KeyUp /\ ~ENABLED KeyDown /\ ~ENABLED KeyRight
        /\ ~ENABLED KeyLeft /\ ~ENABLED KeyEnter /\ ~ENABLED KeyCtrlD
        /\ ~ENABLED KeyTab /\ ~ENABLED KeyEscape /\ ~ENABLED KeyChar
        /\ ~ENABLED KeyBackspace

\* what holds of every step: the shortcuts change only by losing the shortcut
\* of the pending confirmation; while a confirmation is pending a key does
\* nothing but end it, (on y or Y) delete and move the selection; a
\* confirmation opens only on an entry of the Shortcuts section and changes
\* nothing else
DeleteKeysInStep ==
    /\ (shortcutEntries' # shortcutEntries \/ shortcutsFile' # shortcutsFile) =>
        /\ confirmDeleteId # NullStr
        /\ confirmDeleteId' = NullStr
        /\ shortcutEntries' = WithoutShortcut(shortcutEntries, confirmDeleteId)
        /\ shortcutsFile' = WithoutShortcut(shortcutsFile, confirmDeleteId)
    /\ (confirmDeleteId # NullStr /\ phase' = "mounted") =>
        /\ confirmDeleteId' = NullStr
        /\ UNCHANGED <<currentTab, coordVars, hasShownResults, lastSave, navStack,
                       scrollOffset, searchTerm, nestedCache, recentEntries,
                       exitResult>>
    /\ (confirmDeleteId = NullStr /\ confirmDeleteId' # NullStr) =>
        /\ OnShortcutsEntry
        /\ confirmDeleteId' = currentItem[1].shortcutId
        /\ UNCHANGED <<phase, currentTab, coordVars, navVars, recentEntries,
                       shortcutEntries, shortcutsFile, exitResult>>

\* C26: In the project list a shortcut is deleted only by Ctrl+D on an entry
\* of the Shortcuts section followed by y or Y as the very next key; any
\* other next key cancels the pending confirmation and leaves the shortcuts
\* unchanged, no other action is processed while a confirmation is pending,
\* and Ctrl+D on a Recent or current-level entry does nothing.
C26_DeleteOnlyByCtrlDThenY == []DeleteKeysInState /\ [][DeleteKeysInStep]_vars

\* the first of two shortcuts has been deleted: the second is left, in the
\* list and in the file, and is the selected row
C26_Witness ==
    /\ phase = "mounted"
    /\ confirmDeleteId = NullStr
    /\ shortcutEntries = <<ScBeta>>
    /\ shortcutsFile = <<ScBeta>>
    /\ selectedKey = "sc-" \o ScBeta.id

---------------------------------------------------------------------------
(* The shortcuts module on its own: addShortcut and updateShortcut called  *)
(* in any order with any input.  A stored shortcut is a record of id,      *)
(* name, trigger, caseSensitive and command; its order is its position.    *)

\* shortcuts one file can hold
MaxShortcuts == 3

\* a collision test that compares the triggers as they are
triggersCollideExact(trigger1, caseSensitive1, trigger2, caseSensitive2) ==
    trigger1 = trigger2

\* triggersCollide
triggersCollide(trigger1, caseSensitive1, trigger2, caseSensitive2) ==
    IF caseSensitive1 /\ caseSensitive2 THEN trigger1 = trigger2
    ELSE ToLowerChars(Chars(trigger1)) = ToLowerChars(Chars(trigger2))

\* validateTriggerFormat: the error, none when the trigger is valid
validateTriggerFormat(trigger) ==
    IF Trim(Chars(trigger)) = <<>> THEN Some("Trigger cannot be empty")
    ELSE IF \E i \in 1..Len(Chars(trigger)) : Chars(trigger)[i] = " "
    THEN Some("Trigger cannot contain spaces")
    ELSE IF Len(Chars(trigger)) >= 2 /\ SubSeq(Chars(trigger), 1, 2) = <<"-", "-">>
    THEN Some("Trigger cannot start with '--'")
    ELSE None

\* validateTrigger(trigger, caseSensitive, excludeId) against the file
validateTrigger(file, trigger, caseSensitive, excludeId) ==
    IF validateTriggerFormat(trigger) # None THEN validateTriggerFormat(trigger)
    ELSE IF \E i \in 1..Len(file) :
                /\ ~(excludeId # NullStr /\ file[i].id = excludeId)
                /\ triggersCollide(trigger, caseSensitive,
                                   file[i].trigger, file[i].caseSensitive)
    THEN Some("Trigger collides")
    ELSE None

\* a command step that is empty or blank
BlankCommand == [verb |-> "", path |-> "", quoted |-> FALSE]

\* validateCommand
validateCommand(command) ==
    IF Len(command) = 0 THEN Some("Command array cannot be empty")
    ELSE IF \A i \in 1..Len(command) : command[i] = BlankCommand
    THEN Some("Command array must contain at least one non-empty command")
    ELSE None

\* validateShortcutInput(input, excludeId)
validateShortcutInput(file, input, excludeId) ==
    IF input.name = "" THEN Some("Name cannot be empty")
    ELSE IF validateTrigger(file, input.trigger, input.caseSensitive, excludeId) # None
    THEN validateTrigger(file, input.trigger, input.caseSensitive, excludeId)
    ELSE validateCommand(input.command)

\* addShortcut(input) with randomUUID() = id: the file after the call and the
\* error it throws, none when it returns
addShortcut(file, input, id) ==
    IF validateShortcutInput(file, input, NullStr) # None
    THEN [file |-> file, error |-> validateShortcutInput(file, input, NullStr)]
    ELSE [file |-> Append(file,
                      [id |-> id, name |-> input.name, trigger |-> input.trigger,
                       caseSensitive |-> input.caseSensitive,
                       command |-> SelectSeq(input.command,
                                             LAMBDA c : c # BlankCommand)]),
          error |-> None]

\* a ?? b
OrElse(a, b) == IF a # None THEN a[1] ELSE b

\* updateShortcut(id, updates)
updateShortcut(file, id, updates) ==
    IF \A i \in 1..Len(file) : file[i].id # id
    THEN [file |-> file, error |-> Some("Shortcut not found")]
    ELSE
        LET index == CHOOSE i \in 1..Len(file) :
                        file[i].id = id /\ \A j \in 1..(i - 1) : file[j].id # id
            existing == file[index]
            merged == [name |-> OrElse(updates.name, existing.name),
                       trigger |-> OrElse(updates.trigger, existing.trigger),
                       caseSensitive |-> OrElse(updates.caseSensitive,
                                                existing.caseSensitive),
                       command |-> OrElse(updates.command, existing.command)]
            validation == validateShortcutInput(file, merged, id)
        IN  IF validation # None THEN [file |-> file, error |-> validation]
            ELSE [file |-> [file EXCEPT ![index] =
                      [id |-> existing.id, name |-> merged.name,
                       trigger |-> merged.trigger,
                       caseSensitive |-> merged.caseSensitive,
                       command |-> SelectSeq(merged.command,
                                             LAMBDA c : c # BlankCommand)]],
                  error |-> None]

\* the triggers a caller passes: three that are valid, two of them equal but
\* for case, and three that are not
Triggers == {"go", "Go", "web", "", "g o", "--go"}

ShortcutInputs ==
    {[name |-> n, trigger |-> t, caseSensitive |-> c, command |-> cmd] :
        n \in {"alpha", ""}, t \in Triggers, c \in BOOLEAN,
        cmd \in {<<CdCommand(BetaPath)>>, <<BlankCommand>>}}

ShortcutUpdates ==
    {[name |-> None, trigger |-> t, caseSensitive |-> c, command |-> None] :
        t \in {None} \cup {Some(x) : x \in Triggers},
        c \in {None, Some(TRUE), Some(FALSE)}}

\* no shortcuts.json yet
StoreInit ==
    /\ phase = "constructed"
    /\ currentTab = 0
    /\ projects = None
    /\ isRefreshing = FALSE
    /\ settings = S0
    /\ signals = <<FALSE>>
    /\ hasShownResults = FALSE
    /\ load = IdleLoad
    /\ scans = {}
    /\ nScans = 0
    /\ cacheFile = FileMissing
    /\ lastSave = None
    /\ fs = FsEmpty
    /\ nestedCache = EmptyMap
    /\ navStack = <<RootLevel(<<>>)>>
    /\ selectedKey = NullStr
    /\ scrollOffset = 0
    /\ searchTerm = <<>>
    /\ recentEntries = <<>>
    /\ shortcutEntries = <<>>
    /\ exitResult = None
    /\ confirmDeleteId = NullStr
    /\ shortcutsFile = <<>>

\* addShortcut(input) is called; randomUUID returns an id no shortcut has
AddShortcutCall ==
    /\ Len(shortcutsFile) < MaxShortcuts
    /\ \E input \in ShortcutInputs :
       \E id \in ShortcutIds \ {shortcutsFile[i].id : i \in 1..Len(shortcutsFile)} :
            shortcutsFile' = addShortcut(shortcutsFile, input, id).file
    /\ UNCHANGED <<phase, currentTab, coordVars, hasShownResults, lastSave, navVars,
                   recentEntries, shortcutEntries, fs, exitResult, confirmDeleteId>>

\* updateShortcut(id, updates) is called
UpdateShortcutCall ==
    /\ \E id \in ShortcutIds, updates \in ShortcutUpdates :
            shortcutsFile' = updateShortcut(shortcutsFile, id, updates).file
    /\ UNCHANGED <<phase, currentTab, coordVars, hasShownResults, lastSave, navVars,
                   recentEntries, shortcutEntries, fs, exitResult, confirmDeleteId>>

StoreNext ==
    \/ AddShortcutCall
    \/ UpdateShortcutCall

StoreSpec == StoreInit /\ [][StoreNext]_vars

---------------------------------------------------------------------------
(* Properties: the shortcuts module *)

\* the two strings are equal but for the case of their letters
EqualIgnoringCase(a, b) ==
    /\ Len(Chars(a)) = Len(Chars(b))
    /\ \A i \in 1..Len(Chars(a)) : SameLetter(Chars(a)[i], Chars(b)[i])

\* the triggers of a and b collide
Colliding(a, b) ==
    IF a.caseSensitive /\ b.caseSensitive THEN a.trigger = b.trigger
    ELSE EqualIgnoringCase(a.trigger, b.trigger)

NoCollisions(file) ==
    \A i, j \in 1..Len(file) : i # j => ~Colliding(file[i], file[j])

\* the ids randomUUID can return
FreshIds == ShortcutIds \ {shortcutsFile[i].id : i \in 1..Len(shortcutsFile)}

\* what the update asks the shortcut to become
Merged(existing, updates) ==
    [trigger |-> OrElse(updates.trigger, existing.trigger),
     caseSensitive |-> OrElse(updates.caseSensitive, existing.caseSensitive)]

\* C27: After any sequence of addShortcut and updateShortcut calls, no two
\* stored shortcuts have colliding triggers (equal strings when both are
\* case-sensitive, equal ignoring case when at least one is
\* case-insensitive); an add or update that would create a collision fails
\* with an error and leaves the stored shortcuts unchanged.
C27_NoCollidingTriggersStored ==
    /\ NoCollisions(shortcutsFile)
    /\ \A input \in ShortcutInputs, id \in FreshIds :
        LET call == addShortcut(shortcutsFile, input, id)
        IN  /\ NoCollisions(call.file)
            /\ (\E i \in 1..Len(shortcutsFile) : Colliding(input, shortcutsFile[i])) =>
                    call.error # None /\ call.file = shortcutsFile
            /\ call.error # None => call.file = shortcutsFile
    /\ \A k \in 1..Len(shortcutsFile), updates \in ShortcutUpdates :
        LET call == updateShortcut(shortcutsFile, shortcutsFile[k].id, updates)
        IN  /\ NoCollisions(call.file)
            /\ (\E i \in 1..Len(shortcutsFile) :
                    i # k /\ Colliding(Merged(shortcutsFile[k], updates),
                                       shortcutsFile[i])) =>
                    call.error # None /\ call.file = shortcutsFile
            /\ call.error # None => call.file = shortcutsFile

\* go and Go are stored side by side, both case-sensitive; making either
\* case-insensitive is refused, and so is adding a case-insensitive GO-like
\* trigger
C27_Witness ==
    /\ Len(shortcutsFile) >= 2
    /\ \E i, j \in 1..Len(shortcutsFile) :
        /\ shortcutsFile[i].trigger = "go" /\ shortcutsFile[i].caseSensitive
        /\ shortcutsFile[j].trigger = "Go" /\ shortcutsFile[j].caseSensitive
        /\ updateShortcut(shortcutsFile, shortcutsFile[i].id,
                [name |-> None, trigger |-> None, caseSensitive |-> Some(FALSE),
                 command |-> None]).error = Some("Trigger collides")
    /\ \A id \in FreshIds :
        addShortcut(shortcutsFile,
            [name |-> "alpha", trigger |-> "go", caseSensitive |-> FALSE,
             command |-> <<CdCommand(BetaPath)>>], id).error = Some("Trigger collides")
    /\ FreshIds # {}

---------------------------------------------------------------------------
(* Properties: overlapping scans, the indicator, the cache record *)

\* C28: If a settings change starts a rescan while an earlier scan started
\* with the previous parameters is still in flight, then once both have
\* completed uncancelled the displayed tree and the cache record are those
\* of the scan with the current settings, whichever of the two scans
\* finishes last; a late result of the older scan never overwrites the
\* newer one.  Stated for the tree and for the saveCache call (a weaker
\* statement than one about the file, which a failed write leaves behind):
\* when no scan is in flight, both come from the scan started last, the one
\* that was given the current parameters.
C28_NewerScanWinsAfterOverlap ==
    (phase = "mounted" /\ scans = {} /\ lastSave # None) =>
        /\ lastSave[1].scan = nScans
        /\ projects = Some(lastSave[1].projects)
        /\ lastSave[1].projectsDir = settings.projectsDir
        /\ lastSave[1].maxDepth = settings.maxDepth
        /\ lastSave[1].skipDirs = settings.skipDirs

\* C29: As long as cancel has not been invoked, the refreshing indicator is
\* true exactly while a scan is in flight: it is set when a scan starts, it
\* is never false while some scan is still running, and it becomes false
\* once the running scan has completed.
C29_RefreshingIffScanInFlight ==
    phase = "mounted" => (isRefreshing <=> scans # {})

\* the records that pair a tree with parameters a scan can return it for
ScanRecords ==
    UNION {{FileJson(CacheData(t, c.projectsDir, c.maxDepth, c.skipDirs)) :
                t \in UNION {ScanTable[c][d] : d \in FsStates \cup {FsSmall}}} :
           c \in SettingsChoices}

\* the file is what the session found, or holds no record, or holds the
\* result of a scan with the parameters of that scan
RecordPairsOneScan ==
    cacheFile \in InitialCacheFiles \cup {FileMissing, FileCorrupt} \cup ScanRecords

\* C30 (as stated): After every scan that completes uncancelled the single
\* cache record is overwritten as a whole with that scan's result paired
\* with the parameters that scan was started with; in every reachable state
\* the record on disk never pairs the projects of one scan with the
\* parameters of another.
C30_RecordIsOneScansResultAndParameters ==
    /\ \A s \in scans :
          ~Cancelled =>
              \A result \in ScanResults(s), outcome \in WriteOutcomes :
                  AfterScan(s, result, outcome).cacheFile = RecordOf(s, result)
    /\ RecordPairsOneScan

\* C30 (amended): After every scan that completes uncancelled save is called
\* with that scan's result and the parameters that scan was started with;
\* the call overwrites the record as a whole when the write succeeds, and
\* otherwise leaves the file as it was or without a readable record; in
\* every reachable state the record on disk never pairs the projects of one
\* scan with the parameters of another.
C30_SaveWritesOneScansResultAndParameters ==
    /\ \A s \in scans :
          ~Cancelled =>
              \A result \in ScanResults(s), outcome \in WriteOutcomes :
                  LET after == AfterScan(s, result, outcome)
                  IN  /\ after.lastSave = Some(SaveArgs(s, result))
                      /\ after.cacheFile =
                            CASE outcome = "ok" -> RecordOf(s, result)
                              [] outcome = "failOpen" -> cacheFile
                              [] outcome = "failWrite" -> FileCorrupt
    /\ RecordPairsOneScan

\* the settings were changed while the mount scan was running, and the mount
\* scan has completed since: the record holds its tree with the parameters
\* it was started with, which are not the current ones
C30_Witness ==
    /\ ~Cancelled
    /\ lastSave # None
    /\ lastSave[1].kind = "mount"
    /\ lastSave[1].projects # <<>>
    /\ lastSave[1].maxDepth # settings.maxDepth
    /\ cacheFile = FileJson(CacheData(lastSave[1].projects, lastSave[1].projectsDir,
                                      lastSave[1].maxDepth, lastSave[1].skipDirs))


---------------------------------------------------------------------------
(* Properties: the navigation stack and the displayed tree *)

\* the stack is the single root frame over tree t
SingleRootFrameOver(stack, t) ==
    /\ Len(stack) = 1
    /\ stack[1].projects = t
    /\ stack[1].parentPath = NullStr
    /\ stack[1].savedScrollOffset = 0
    /\ stack[1].savedSelectedKey = NullStr

\* C31: Whenever the displayed tree is replaced (cached tree shown, initial
\* scan completed, refresh completed, settings rescan completed) the
\* navigation stack is reset to a single root frame over the new tree,
\* whatever level the user had drilled into; in every reachable state the
\* bottom frame's projects equal the displayed tree (or are empty before any
\* result is shown).
C31_TreeReplacedResetsStackToRoot ==
    /\ \A s \in scans :
          ~Cancelled =>
              \A result \in ScanResults(s), outcome \in WriteOutcomes :
                  LET after == AfterScan(s, result, outcome)
                  IN  /\ after.projects = Some(result)
                      /\ SingleRootFrameOver(after.navStack, result)
    /\ (load.phase = "parsed" /\ cacheCallbackApplies(AppState, Cached)) =>
          /\ AfterCacheLoad.projects = Cached
          /\ SingleRootFrameOver(AfterCacheLoad.navStack, Cached[1])
    /\ navStack[1].projects = (IF projects = None THEN <<>> ELSE projects[1])

\* the list is drilled into the nested repositories of a project while a scan
\* that was not cancelled is running: its completion replaces the tree
C31_Witness ==
    /\ Len(navStack) = 2
    /\ projects # None
    /\ ~Cancelled
    /\ \E s \in scans : \E result \in ScanResults(s) : result # projects[1]


\* drilling into p from the current state leaves the frames below the top,
\* saves the viewport in the top frame and pushes a frame holding `flat`
DrillPushes(p, flat) ==
    LET after == drillDown(NavState, p)
        n == Len(navStack)
    IN  /\ Len(after.navStack) = n + 1
        /\ \A i \in 1..(n - 1) : after.navStack[i] = navStack[i]
        /\ after.navStack[n] =
                [navStack[n] EXCEPT !.savedScrollOffset = scrollOffset,
                                    !.savedSelectedKey = selectedKey]
        /\ after.navStack[n + 1].savedScrollOffset = 0
        /\ after.navStack[n + 1].savedSelectedKey = NullStr
        /\ after.navStack[n + 1].projects = flat

\* back removes the top frame and leaves the frames below it
BackPopsTop ==
    Len(navStack) > 1 =>
        goBack(NavState).navStack = SubSeq(navStack, 1, Len(navStack) - 1)

\* C32: Drilling down changes only the top of the stack: every frame below
\* the previous top is unchanged, the previous top changes only in
\* savedScrollOffset and savedSelectionKey (set to the viewport at the moment
\* of the drill-down), and the pushed frame has savedScrollOffset = 0,
\* savedSelectionKey = none and the flattened repositories of the drilled
\* node; back removes only the top frame.
C32_DrillChangesOnlyTopBackPops ==
    /\ \A p \in Drillable : DrillPushes(p, collectNestedGitProjects(p))
    /\ BackPopsTop

\* the same with the pushed frame holding the list kept in nestedCache for
\* the path of the drilled node when there is one
DrillChangesOnlyTopCachedFlatten ==
    /\ \A p \in Drillable :
          DrillPushes(p, IF p.path \in DOMAIN nestedCache THEN nestedCache[p.path]
                         ELSE collectNestedGitProjects(p))
    /\ BackPopsTop


---------------------------------------------------------------------------
(* The project list with Ctrl+T: handleAddShortcut *)

\* generateCommand(path): cd "<path>"; the paths of the model hold no quote
\* to escape
generateCommand(path) == <<CdCommand(path)>>

\* String(num) for the numbers generateUniqueTrigger can reach
NumberStrings == <<"1", "2", "3", "4", "5">>

\* generateUniqueTrigger(shortcuts): the first number no trigger equals
generateUniqueTrigger(shortcuts) ==
    LET existing == {ToLowerChars(Chars(shortcuts[i].trigger)) : i \in 1..Len(shortcuts)}
        free == {n \in 1..Len(NumberStrings) : Chars(NumberStrings[n]) \notin existing}
    IN  NumberStrings[CHOOSE n \in free : \A m \in free : n <= m]

\* findShortcutByPath(path): whether the file holds a shortcut with the
\* command generateCommand gives for the path among its steps
findShortcutByPath(file, path) ==
    \E i \in 1..Len(file) :
        \E j \in 1..Len(file[i].command) : file[i].command[j] = generateCommand(path)[1]

\* key.startsWith("recent-"): the keys of the Recent section are the only
\* ones of the model that begin so
StartsWithRecent(key, recents) ==
    \E i \in 1..Len(recents) : key = "recent-" \o recents[i].path

\* a handler that leaves the selection where it is
keyAfterAddUnchanged(list, key) == key

\* handleAddShortcut, "pre-select the next item": the key selected after an
\* entry of the Recent section was added
keyAfterAdd(list, key) ==
    LET sel == selectableIndices(list)
        pos == indexOf(sel, selectedIndex(list, key))
        nextPos == IF pos + 1 < Len(sel) THEN pos + 1 ELSE pos - 1
    IN  IF nextPos >= 0 /\ nextPos < Len(sel) THEN KeyAt(list, sel[nextPos + 1])
        ELSE key

\* handleAddShortcut with randomUUID() = id on the list `list` with `key`
\* selected: what it leaves in the three states it writes
handleAddShortcut(list, key, file, entries, recents, st, id) ==
    LET idx == selectedIndex(list, key)
        same == [shortcutsFile |-> file, shortcutEntries |-> entries, selectedKey |-> key]
    IN  IF ~(idx + 1 \in 1..Len(list)) THEN same
        ELSE LET cur == ItemAt(list, idx)
             IN  IF cur.type # "project" \/ cur.path = "" THEN same
                 ELSE IF StartsWithSc(cur.selectionKey) THEN same
                 ELSE IF findShortcutByPath(file, cur.path) THEN same
                 ELSE LET added ==
                            addShortcut(file,
                                [name |-> getDisplayName(cur.path, st.projectsDir),
                                 trigger |-> generateUniqueTrigger(entries),
                                 caseSensitive |-> FALSE,
                                 command |-> generateCommand(cur.path)], id)
                      IN  IF added.error # None THEN same
                          ELSE [shortcutsFile |-> added.file,
                                shortcutEntries |->
                                    Append(entries, added.file[Len(added.file)]),
                                selectedKey |->
                                    IF StartsWithRecent(cur.selectionKey, recents)
                                    THEN keyAfterAdd(list, key) ELSE key]

\* randomUUID(): an id no shortcut of the file has; ids are only compared
\* for equality, so the first unused one stands for every fresh id
randomUUID(file) ==
    LET used == {file[i].id : i \in 1..Len(file)}
        unused == {n \in 1..Len(NumberStrings) :
                        NumberStrings[n] \in ShortcutIds \ used}
    IN  NumberStrings[CHOOSE n \in unused : \A m \in unused : n <= m]

\* Ctrl+T (settings.shortcutToggleKey)
KeyCtrlT ==
    /\ OnProjectsTab
    /\ Len(shortcutEntries) < MaxShortcuts
    /\ LET after == handleAddShortcut(items, selectedKey, shortcutsFile,
                                      shortcutEntries, recentEntries, settings,
                                      randomUUID(shortcutsFile))
       IN  /\ shortcutsFile' = after.shortcutsFile
           /\ shortcutEntries' = after.shortcutEntries
           /\ selectedKey' = after.selectedKey
    /\ UNCHANGED <<phase, currentTab, coordVars, hasShownResults, lastSave, navStack,
                   scrollOffset, searchTerm, nestedCache, recentEntries, fs,
                   exitResult, confirmDeleteId>>

\* a loaded tree, empty or not, with no, one or two shortcuts and no, one or
\* two recent entries
MutateInit ==
    /\ \E t \in LoadedTrees \cup {<<>>} : Loaded(t) /\ fs = FsLarge
    /\ recentEntries \in RecentLists
    /\ shortcutEntries \in {<<>>, InitialShortcuts, InitialShortcuts \o <<ScBeta>>}
    /\ shortcutsFile = shortcutEntries

MutateNext ==
    \/ KeyUp
    \/ KeyDown
    \/ KeyCtrlT
    \/ KeyCtrlD
    \/ KeyWhileConfirming

\* The project list with the two keys that change the shortcuts.
MutateSpec == MutateInit /\ [][MutateNext]_vars


---------------------------------------------------------------------------
(* Properties: the selection after the list lost the selected entry *)

\* the displayed list with `entries` as the shortcuts
ListWith(entries) ==
    Items(navStack, settings, entries, recentEntries, searchTerm, Tree)

\* the key of the nearest neighbour of the entry selected by key in list: of
\* the next selectable item, else of the previous one, else none
NeighbourKey(list, key) ==
    LET cur == selectedIndex(list, key) + 1
        later == {i \in Selectable(list) : i > cur}
        earlier == {i \in Selectable(list) : i < cur}
    IN  IF later # {}
        THEN list[CHOOSE i \in later : \A j \in later : i <= j].selectionKey
        ELSE IF earlier # {}
        THEN list[CHOOSE i \in earlier : \A j \in earlier : i >= j].selectionKey
        ELSE NullStr

\* the entry selected by key in list is not in newList, and the selection
\* newKey is on its nearest neighbour there, or with no neighbour on an entry
\* of newList when it has one
RemovedThenOnNeighbour(list, key, newList, newKey) ==
    LET cur == selectedIndex(list, key) + 1
        resolved == selectedIndex(newList, newKey) + 1
        neighbour == NeighbourKey(list, key)
    IN  (/\ cur \in Selectable(list)
         /\ ~KeyPresent(newList, list[cur].selectionKey)) =>
            /\ neighbour # NullStr =>
                  /\ newKey = neighbour
                  /\ KeyPresent(newList, neighbour)
                  /\ newList[resolved].selectionKey = neighbour
            /\ Selectable(newList) # {} => resolved \in Selectable(newList)

\* the shortcuts after Ctrl+T and the selection it leaves
AfterAdd ==
    handleAddShortcut(items, selectedKey, shortcutsFile, shortcutEntries,
                      recentEntries, settings, randomUUID(shortcutsFile))

\* C33: When a list mutation removes the selected entry from the list
\* (deleting the selected shortcut, or adding a shortcut for the selected
\* Recent entry so that it leaves the Recent section), the selection
\* afterwards is on the nearest remaining neighbour: the next selectable item
\* if there is one, otherwise the previous one, and never an entry that no
\* longer exists.
C33_SelectionMovesToNearestNeighbour ==
    /\ (OnProjectsTab /\ Len(shortcutEntries) < MaxShortcuts) =>
          RemovedThenOnNeighbour(items, selectedKey,
                                 ListWith(AfterAdd.shortcutEntries),
                                 AfterAdd.selectedKey)
    /\ (phase = "mounted" /\ currentTab = 0 /\ confirmDeleteId # NullStr) =>
          RemovedThenOnNeighbour(items, selectedKey,
                                 ListWith(confirmDelete.shortcutEntries),
                                 confirmDelete.selectedKey)

\* Ctrl+T on the first of two Recent entries has added a shortcut for it: the
\* entry has left the Recent section and the second one is selected
C33_Witness ==
    /\ Len(recentEntries) = 2
    /\ recentEntries[1].path \in exactShortcutPaths(shortcutEntries)
    /\ shortcutEntries[Len(shortcutEntries)].command =
            generateCommand(recentEntries[1].path)
    /\ shortcutEntries[Len(shortcutEntries)].trigger = "1"
    /\ selectedKey = "recent-" \o recentEntries[2].path
    /\ confirmDeleteId = NullStr


---------------------------------------------------------------------------
(* Properties: the sections while a search term is typed *)

\* no shortcut has as its stored command the single instruction cd to the
\* path of recent entry e
NoExactMatch(e) ==
    \A s \in 1..Len(shortcutEntries) : ~SingleCdTo(shortcutEntries[s], e.path)

\* recent entry e stands in the displayed list as an entry of the Recent
\* section with the Recent header somewhere before it
ShownUnderRecent(e) ==
    \E i \in 1..Len(items) :
        /\ items[i].type = "project"
        /\ SectionRank(items[i]) = 2
        /\ items[i].path = e.path
        /\ \E h \in 1..(i - 1) : items[h] = HeaderItem("Recent")

\* the recent entries a typed term matches
MatchingRecent ==
    {k \in 1..Len(recentEntries) :
        /\ NoExactMatch(recentEntries[k])
        /\ ContainsIgnoringCase(Chars(recentEntries[k].displayName), searchTerm)}

\* C34 (as stated): A non-empty search term hides only the
\* Favorites/Shortcuts section: at the root level every Recent-section entry
\* that is not excluded by an exact favorite match and whose label contains
\* the term is still listed, under its Recent header.
C34_SearchKeepsMatchingRecent ==
    (Len(navStack) = 1 /\ settings.showRecent /\ searchTerm # <<>>) =>
        /\ \A i \in 1..Len(items) : SectionRank(items[i]) # 1
        /\ \A k \in MatchingRecent : ShownUnderRecent(recentEntries[k])

\* C34 (amended): A non-empty search term hides the Favorites/Shortcuts
\* section and the Recent section alike: at the root level, while the term is
\* non-empty no header and no entry of either section is listed, whether or
\* not its label contains the term, and the matches are those of the current
\* level; with the term empty every Recent entry that is not excluded by an
\* exact favorite match is listed, under its Recent header.
C34_SearchHidesShortcutsAndRecent ==
    (Len(navStack) = 1 /\ settings.showRecent) =>
        IF searchTerm # <<>>
        THEN \A i \in 1..Len(items) : SectionRank(items[i]) = 3
        ELSE \A k \in 1..Len(recentEntries) :
                NoExactMatch(recentEntries[k]) => ShownUnderRecent(recentEntries[k])

\* at the root, with the Recent section switched on, a term is typed that the
\* label of a recent entry without a shortcut contains, and the list shows a
\* match of the current level
C34_Witness ==
    /\ Len(navStack) = 1
    /\ settings.showRecent
    /\ searchTerm # <<>>
    /\ MatchingRecent # {}
    /\ Len(items) >= 2


---------------------------------------------------------------------------
(* Properties: the selection and the rendered window *)

\* Math.max(0, items.length - settings.visibleRows)
maxScroll(list, st) == Max(0, Len(list) - st.visibleRows)

\* Math.min(scrollOffset, maxScroll): the first row that is rendered
clampedScrollOffset(list, offset, st) == Min(offset, maxScroll(list, st))

\* the row selected by key is one of the rows of list that are rendered
SelectedInWindow(list, key, offset, st) ==
    selectableIndices(list) # <<>> =>
        /\ clampedScrollOffset(list, offset, st) <= selectedIndex(list, key)
        /\ selectedIndex(list, key) <
                clampedScrollOffset(list, offset, st) + st.visibleRows

\* C35: In every reachable state of the project list with at least one
\* selectable item, the selected item's index lies inside the rendered window
\* [scroll offset, scroll offset + visibleRows), including after the tree is
\* replaced by a completed scan, after a shortcut is added or deleted, after a
\* search change and after drill-down or back.
C35_SelectedRowIsRendered ==
    phase = "mounted" => SelectedInWindow(items, selectedKey, scrollOffset, settings)


---------------------------------------------------------------------------
(* Properties: the selection among the selectable items *)

\* the resolved selection is an item that is not a header
ResolvedIsSelectable ==
    Selectable(items) # {} =>
        /\ selIdx + 1 \in Selectable(items)
        /\ items[selIdx + 1].type # "header"

\* the number of items of the list that are not headers
NumSelectable == Cardinality(Selectable(items))

\* the position of the resolved selection among the items that are not
\* headers, counted from 0
SelectablePos == Cardinality({i \in Selectable(items) : i < selIdx + 1})

\* the position among the items of list that are not headers of the item
\* key resolves to, counted from 0; -1 when it resolves to a header
PosOf(list, key) ==
    IF selectedIndex(list, key) + 1 \in Selectable(list)
    THEN Cardinality({i \in Selectable(list) : i < selectedIndex(list, key) + 1})
    ELSE -1

\* what holds of the four keys in every state of the list with an item that
\* is not a header: the selection each key leaves is the item that is not a
\* header at the position named
MovesAmongSelectable ==
    (OnProjectsTab /\ NumSelectable > 0) =>
        /\ PosOf(items, upArrow(items, selectedKey, scrollOffset, settings).selectedKey)
                = (IF SelectablePos = 0 THEN NumSelectable - 1 ELSE SelectablePos - 1)
        /\ PosOf(items, downArrow(items, selectedKey, scrollOffset, settings).selectedKey)
                = (IF SelectablePos = NumSelectable - 1 THEN 0 ELSE SelectablePos + 1)
        /\ PosOf(items, pageUp(items, selectedKey, scrollOffset, settings).selectedKey)
                = Max(0, SelectablePos - PAGE_SIZE)
        /\ PosOf(items, pageDown(items, selectedKey, scrollOffset, settings).selectedKey)
                = Min(NumSelectable - 1, SelectablePos + PAGE_SIZE)

\* C36: Whenever the displayed list contains at least one non-header item,
\* the resolved selection is a non-header item after any sequence of actions;
\* Up, Down, PageUp and PageDown move only among non-header items, Up from
\* the first selectable item wrapping to the last and Down from the last
\* wrapping to the first.
C36_SelectionStaysOnSelectableItems ==
    ResolvedIsSelectable /\ MovesAmongSelectable

\* the last of at least three items that are not headers is selected, in a
\* list longer than the window: one Up from the first item leads here
C36_Witness ==
    /\ phase = "mounted"
    /\ NumSelectable >= 3
    /\ SelectablePos = NumSelectable - 1
    /\ items[1].type = "header"
    /\ scrollOffset = Len(items) - settings.visibleRows
    /\ scrollOffset > 0


---------------------------------------------------------------------------
(* Properties: the depth of the navigation stack *)

\* Right on the row at index idx of the displayed list: the stack after it
StackAfterRight(idx) ==
    IF /\ items[idx].type = "project"
       /\ items[idx].project # None
       /\ HasNested(items[idx].project[1])
    THEN drillDown(NavState, items[idx].project[1]).navStack
    ELSE navStack

\* C37: The navigation stack never holds more than two frames: every entry of
\* a drilled-down level is a flattened repository with hasNestedProjects =
\* false, so a drill-down from a non-root level never pushes a frame.
C37_StackHoldsAtMostTwoFrames ==
    /\ Len(navStack) <= 2
    /\ \A f \in 2..Len(navStack) :
          \A i \in 1..Len(navStack[f].projects) :
              /\ navStack[f].projects[i].isGitRepo
              /\ navStack[f].projects[i].hasNestedProjects = FALSE
              /\ ~HasNested(navStack[f].projects[i])
    /\ Len(navStack) > 1 =>
          \A idx \in 1..Len(items) : StackAfterRight(idx) = navStack

\* the list shows the repositories below alpha, one of which holds a
\* repository of its own in the tree
C37_Witness ==
    /\ Len(navStack) = 2
    /\ \E i \in 1..Len(navStack[2].projects) :
          LET inTree == FindProject(Tree, navStack[2].projects[i].path)
          IN  /\ inTree # None
              /\ HasNested(inTree[1])
              /\ items[selIdx + 1].type = "project"
              /\ items[selIdx + 1].path = navStack[2].projects[i].path


---------------------------------------------------------------------------
(* Properties: the shape of the tree *)

\* the directories on the chains from the projects directory (exclusive)
\* down to each found repository (inclusive), as segments
ChainDirs ==
    UNION {{SubSeq(q, 1, k) : k \in 1..Len(q)} : q \in FoundBelowRoot}

RECURSIVE CountPath(_, _)
\* the number of nodes with path `path` in the tree under list
CountPath(list, path) ==
    IF list = <<>> THEN 0
    ELSE (IF Head(list).path = path THEN 1 ELSE 0)
         + (IF NestedOf(Head(list)) = None THEN 0
            ELSE CountPath(NestedOf(Head(list))[1], path))
         + CountPath(Tail(list), path)

\* the children of node n, none when it has no list of them
ChildrenOf(n) ==
    IF NestedOf(n) = None THEN {}
    ELSE {NestedOf(n)[1][i] : i \in 1..Len(NestedOf(n)[1])}

\* tree t has one node for each directory of the chains and no other, each
\* below the node of its parent directory, the root list holding the
\* directories directly below the projects directory
OneNodePerChainDir(t) ==
    LET nodes == NodesOf(t)
    IN  /\ \A d \in ChainDirs :
              /\ CountPath(t, PathOf(d)) = 1
              /\ \E n \in nodes : n.path = PathOf(d) /\ n.name = d[Len(d)]
        /\ \A n \in nodes : \E d \in ChainDirs : n.path = PathOf(d)
        /\ \A d \in ChainDirs, n \in nodes :
              n.path = PathOf(d) =>
                  /\ {c.path : c \in ChildrenOf(n)} =
                        {PathOf(e) : e \in {x \in ChainDirs :
                                                /\ Len(x) = Len(d) + 1
                                                /\ SubSeq(x, 1, Len(d)) = d}}
                  /\ HasNested(n) <=> ChildrenOf(n) # {}
        /\ {t[i].path : i \in 1..Len(t)} =
                {PathOf(d) : d \in {x \in ChainDirs : Len(x) = 1}}
        /\ Len(t) = Cardinality({x \in ChainDirs : Len(x) = 1})

\* C38: For every set of found repositories, the tree contains exactly one
\* node per distinct directory path on the chain from rootDir (exclusive)
\* down to each found repository (inclusive), each node is a child of the
\* node of its parent directory and of no other node, and the root-level
\* nodes are exactly the nodes whose parent directory is rootDir (e.g. repos
\* R/alpha and R/beta/gamma give roots alpha and beta, beta having the single
\* child gamma).
C38_OneNodePerDirectoryBelowItsParent ==
    existsSync(settings.projectsDir) =>
        /\ \A o \in Orderings(GlobGitDirs(settings.maxDepth,
                                parseSkipPatterns(settings.skipDirs), fs)) :
                OneNodePerChainDir(buildProjectTree(o, settings.projectsDir))
        /\ projects # None => OneNodePerChainDir(projects[1])

\* a scan of a projects directory that is itself a repository and holds the
\* repositories alpha and beta/gamma has returned the roots alpha and beta,
\* beta with the single child gamma
C38_Witness ==
    /\ fs = FsRootRepo
    /\ projects # None
    /\ Len(projects[1]) = 2
    /\ projects[1][1].path = PathOf(<<"alpha">>)
    /\ ChildrenOf(projects[1][1]) = {}
    /\ projects[1][2].path = PathOf(<<"beta">>)
    /\ {c.path : c \in ChildrenOf(projects[1][2])} = {PathOf(<<"beta", "gamma">>)}


----------------------------------------------------------------------------
(* Properties: the order of the lists of a scanned tree *)

\* the UTF-16 code unit of an ASCII letter
CodeUnit(c) ==
    IF IsCapital(c) THEN 64 + CharRank(c) ELSE 96 + CharRank(c)

RECURSIVE CodeUnitLeq(_, _)
\* a <= b in case-sensitive lexical order: code unit by code unit, a prefix
\* before the longer word
CodeUnitLeq(a, b) ==
    IF a = <<>> THEN TRUE
    ELSE IF b = <<>> THEN FALSE
    ELSE IF CodeUnit(Head(a)) # CodeUnit(Head(b))
         THEN CodeUnit(Head(a)) < CodeUnit(Head(b))
    ELSE CodeUnitLeq(Tail(a), Tail(b))

\* a <= b in alphabetical order without regard to case, the word with the
\* lower-case letter first among words that differ in case only
AlphabeticalLeq(a, b) ==
    LET la == ToLowerChars(a)
        lb == ToLowerChars(b)
        differ == {i \in 1..Min(Len(a), Len(b)) : la[i] # lb[i]}
        caseDiffer == {i \in 1..Len(a) : a[i] # b[i]}
        First(S) == CHOOSE i \in S : \A j \in S : i <= j
    IN  IF differ # {}
        THEN CharRank(la[First(differ)]) < CharRank(lb[First(differ)])
        ELSE IF Len(a) # Len(b) THEN Len(a) < Len(b)
        ELSE caseDiffer = {} \/ ~IsCapital(a[First(caseDiffer)])

\* the lists of tree t: the root list and the children of every node
ListsOf(t) ==
    {t} \cup {NestedOf(n)[1] : n \in {m \in NodesOf(t) : NestedOf(m) # None}}

\* every list of t is in case-sensitive lexical order of the names
SortedByCodeUnit(t) ==
    \A l \in ListsOf(t) : \A i \in 1..Len(l) : \A j \in i..Len(l) :
        CodeUnitLeq(Chars(l[i].name), Chars(l[j].name))

\* every list of t is in alphabetical order of the names
SortedAlphabetically(t) ==
    \A l \in ListsOf(t) : \A i \in 1..Len(l) : \A j \in i..Len(l) :
        AlphabeticalLeq(Chars(l[i].name), Chars(l[j].name))

\* the trees a scan of the present disk with the present settings can return
ScanReturns ==
    {buildProjectTree(o, settings.projectsDir) :
        o \in Orderings(GlobGitDirs(settings.maxDepth,
                                    parseSkipPatterns(settings.skipDirs), fs))}

\* C39 (as stated): In every tree scan returns, the root list and the
\* children of every node, at every depth, are sorted by name in
\* case-sensitive lexical order.
C39_ListsSortedCaseSensitive ==
    /\ \A t \in ScanReturns : SortedByCodeUnit(t)
    /\ projects # None => SortedByCodeUnit(projects[1])

\* C39 (amended): In every tree scan returns, the root list and the children
\* of every node, at every depth, are sorted by name in the order of
\* localeCompare: alphabetically without regard to case, and among names
\* that differ in case only the one with the lower-case letter first.
C39_ListsSortedAlphabetically ==
    /\ \A t \in ScanReturns : SortedAlphabetically(t)
    /\ projects # None => SortedAlphabetically(projects[1])

\* a scan of a disk with the directories alpha, Alpha and Beta, Beta holding
\* delta and Gamma, has returned alpha, Alpha, Beta at the root and delta
\* before Gamma below Beta
C39_Witness ==
    /\ fs = FsCase
    /\ projects # None
    /\ [i \in 1..Len(projects[1]) |-> projects[1][i].name] = <<"alpha", "Alpha", "Beta">>
    /\ NestedOf(projects[1][3]) # None
    /\ [i \in 1..Len(NestedOf(projects[1][3])[1]) |-> NestedOf(projects[1][3])[1][i].name]
            = <<"delta", "Gamma">>


----------------------------------------------------------------------------
(* Properties: a cache write that fails *)

FailedWrites == WriteOutcomes \ {"ok"}

\* the state after scan s completed with `result` and the write ended with
\* `outcome` differs from the state after a successful write in the cache
\* file only: the result is the displayed tree and the indicator is cleared
MemoryAsAfterGoodWrite(s, result, outcome) ==
    LET after == AfterScan(s, result, outcome)
        good == AfterScan(s, result, "ok")
    IN  /\ after.projects = Some(result)
        /\ after.isRefreshing = FALSE
        /\ after.scans = scans \ {s}
        /\ [after EXCEPT !.cacheFile = good.cacheFile] = good

\* C40 (as stated): A failing cache write raises no error and changes nothing
\* else in the session: the scan result that could not be saved is still the
\* displayed tree and the refreshing indicator is still cleared, and the
\* cache record keeps its previous content.
C40_FailedWriteKeepsRecord ==
    \A s \in scans :
        ~Cancelled =>
            \A result \in ScanResults(s), outcome \in FailedWrites :
                /\ MemoryAsAfterGoodWrite(s, result, outcome)
                /\ AfterScan(s, result, outcome).cacheFile = cacheFile

\* C40 (amended): A failing cache write raises no error and changes nothing
\* in the memory of the session: the scan result that could not be saved is
\* still the displayed tree and the refreshing indicator is still cleared.
\* The cache file keeps its previous content when the write fails before the
\* file is opened; when it fails after the file was truncated no readable
\* record is left, and a load returns absent.
C40_FailedWriteKeepsMemory ==
    \A s \in scans :
        ~Cancelled =>
            \A result \in ScanResults(s), outcome \in FailedWrites :
                LET after == AfterScan(s, result, outcome)
                IN  /\ MemoryAsAfterGoodWrite(s, result, outcome)
                    /\ outcome = "failOpen" => after.cacheFile = cacheFile
                    /\ outcome = "failWrite" =>
                          \A c \in SettingsChoices :
                              loadCacheParse(after.cacheFile, c.projectsDir,
                                             c.maxDepth, c.skipDirs) = None

\* a scan has completed with a non-empty result that is displayed with the
\* indicator cleared, and the file holds no record of it: its write failed
C40_Witness ==
    /\ ~Cancelled
    /\ lastSave # None
    /\ lastSave[1].projects # <<>>
    /\ projects = Some(lastSave[1].projects)
    /\ ~isRefreshing
    /\ cacheFile # FileJson(CacheData(lastSave[1].projects, lastSave[1].projectsDir,
                                      lastSave[1].maxDepth, lastSave[1].skipDirs))

====
